---- MODULE Spec2Model ----
(***************************************************************************)
(* frakt-rs: the coordinator ("server") of a distributed fractal renderer. *)
(* One task per accepted TCP connection reads one framed message and       *)
(* services it against the server state behind a single mutex; results     *)
(* are offered to the portal channel and the render channel.               *)
(*                                                                         *)
(* The impl of the server state (register_worker, dequeue_task,            *)
(* create_fragment_task, regenerate_tiles, the pans, zoom, cycle_fractal,  *)
(* notify_portal) is not among the sources; those operators follow the     *)
(* design document and the shapes the callers in server/src/lib.rs and     *)
(* the fields of ServerDto fix.                                            *)
(***************************************************************************)
EXTENDS Integers, Sequences, FiniteSets, TLC

(* ---- bounds of the model ---------------------------------------------- *)
MaxConn == 2
NumAddrs == 2
MaxMutations == 1
MaxPortalRequests == 1
ChannelCapacity == 2
Width == 4
Height == 4
Tiles == 2
NumFractals == 2

(* ---- program constants ------------------------------------------------ *)
SignatureLen == 16
ShardCount == 10
MaxIteration == 256

Conns == 1..MaxConn
Addrs == 1..NumAddrs
Names == {"w1", "w2"}
NoOwner == 0
PortalTask == MaxConn + 1
None == "none"
Placeholder == "worker-uuid"

Signature == [i \in 1..SignatureLen |-> 0]

(* ---- wire messages a peer may send on a connection --------------------- *)
(* keys: the top-level keys of the JSON header; offset, len: pixels.offset *)
(* of the header and the length of the binary payload.                     *)
RequestMessages ==
    { [keys |-> {"FragmentRequest"}, worker_name |-> n, offset |-> 0, len |-> 0] : n \in Names }

ResultMessages ==
    { [keys |-> {"FragmentResult"}, worker_name |-> None, offset |-> o, len |-> l] :
        o \in {0, 16}, l \in {8, 20, 24} } \ 
    { [keys |-> {"FragmentResult"}, worker_name |-> None, offset |-> 0, len |-> l] : l \in {20, 24} }

(* the resolution every FragmentResult header of the model states: that   *)
(* of a dispatched task; the payload lengths above are the peer's choice   *)
ResultResolution == [nx |-> Width \div Tiles, ny |-> Height \div Tiles]

UnknownMessages ==
    { [keys |-> {}, worker_name |-> None, offset |-> 0, len |-> 0] }

Messages == RequestMessages \cup ResultMessages \cup UnknownMessages

NoMessage == [keys |-> {"-"}, worker_name |-> None, offset |-> 0, len |-> 0]

(* ---- ranges, tiles and tasks ------------------------------------------ *)
(* Coordinates are fixed point, 100 units for 1.0.                         *)
InitialRange == [minx |-> -200, miny |-> -200, maxx |-> 200, maxy |-> 200]

(* tile (i, j) of the partition of r into t by t tiles                     *)
tile_range(r, i, j, t) ==
    LET w == r.maxx - r.minx
        h == r.maxy - r.miny
    IN  [minx |-> r.minx + (i * w) \div t,
         miny |-> r.miny + (j * h) \div t,
         maxx |-> r.minx + ((i + 1) * w) \div t,
         maxy |-> r.miny + ((j + 1) * h) \div t]

TileRange(r, i, j) == tile_range(r, i, j, Tiles)

(* the partition, row by row from the top left                             *)
partition(r, t) ==
    [k \in 1..(t * t) |-> tile_range(r, (k - 1) % t, (k - 1) \div t, t)]

generate_tiles(r) == partition(r, Tiles)

NoTask == [range |-> InitialRange, fractal |-> 0, max_iteration |-> 0,
           resolution |-> [nx |-> 0, ny |-> 0], id |-> [offset |-> 0, count |-> 0]]

(* a resolution of w / t by h / t for every tile                           *)
tile_resolution_NoResidual(tile, view, w, h, t) ==
    [nx |-> w \div t, ny |-> h \div t]

(* the resolution tied to a tile of the partition of view, for a canvas of *)
(* w by h pixels and t tiles an axis: w / t by h / t, and the pixels the   *)
(* integer divisions leave over for the tiles on the right and bottom      *)
(* edges                                                                   *)
tile_resolution(tile, view, w, h, t) ==
    [nx |-> (w \div t) + (IF tile.maxx = view.maxx THEN w % t ELSE 0),
     ny |-> (h \div t) + (IF tile.maxy = view.maxy THEN h % t ELSE 0)]

TileResolution(tile, view) == tile_resolution(tile, view, Width, Height, Tiles)

FragmentTask(tile, fractal, view) ==
    [range |-> tile, fractal |-> fractal, max_iteration |-> MaxIteration,
     resolution |-> TileResolution(tile, view),
     id |-> [offset |-> 0, count |-> SignatureLen]]


(* ---- the server state behind the mutex -------------------------------- *)
VARIABLES
    engine,            \* "off" | "dropped" | "running": the graphics engine and the render receiver
    portal,            \* "off" | "running" | "terminated": the portal and the portal receiver
    server,            \* range, tiles, tasks_queue, current_fractal, workers
    lock,              \* owner of the server mutex, NoOwner when free
    pc,                \* position of each connection handler
    addr,              \* remote endpoint of each connection
    msg,               \* the raw message the handler read
    task,              \* the task chosen for a request
    rd,                \* the RenderingData built for a result
    sent,              \* frames written on each connection by the server
    reads,             \* framed messages read from each connection
    render_chan,       \* render channel, oldest first
    portal_chan,       \* number of PortalDto items waiting in the portal channel
    portal_request_chan, \* number of portal FragmentRequests waiting
    ppc,               \* position of the portal-request task
    shards,            \* the inbox slots of the graphics engine
    mutations,         \* viewport and fractal mutations performed so far
    portal_requests,   \* portal requests submitted so far
    registered,        \* per endpoint, the names given to register_worker, in call order
    palette,           \* the current colour palette of the graphics engine
    created,           \* tiles handed out by create_fragment_task since the last regenerate_tiles
    created_view       \* the same, since the last mutation of the viewport or the fractal

serverVars == <<engine, portal, server, lock, pc, addr, msg, task, rd, sent, reads,
                render_chan, portal_chan, portal_request_chan, ppc, shards, mutations,
                portal_requests, registered, palette, created, created_view>>

(* ---- the wire codec, taken by itself ----------------------------------- *)
VARIABLES
    cpc,               \* "off" | "ready" | "written" | "read": position of the codec exchange
    cin,               \* what is written: the arguments of send_message or send_result, or a peer's frame
    wire,              \* the bytes on the stream
    raw                \* what read_message_raw made of them

codecVars == <<cpc, cin, wire, raw>>

(* ---- one worker's loop, taken by itself -------------------------------- *)
VARIABLES
    wpc,               \* position of the worker in run_worker and run
    outer,             \* the stream run opened first, 0 when there is none
    inner,             \* the stream opened for the result, 0 when there is none
    opened,            \* connections the worker has opened so far
    written,           \* per connection, the messages the worker has written on it
    served             \* connections whose server-side handler has returned

workerVars == <<wpc, outer, inner, opened, written, served>>

(* ---- shutdown ----------------------------------------------------------- *)
VARIABLES
    running,           \* the AtomicBool of run_wrapper
    exited             \* run_wrapper has returned and the runtime is gone

haltVars == <<running, exited>>

(* ---- one render pass over one tile, taken by itself --------------------- *)
VARIABLES
    rpc,               \* "off" | "ready" | "done" | "panic"
    rview,             \* server.range when the tile is rendered
    rtile,             \* range and resolution of the rendered result
    rwritten           \* tile pixels written so far, each with its frame-buffer index

renderVars == <<rpc, rview, rtile, rwritten>>

(* ---- operations applied by themselves, one exchange each ---------------- *)
VARIABLES
    bpc,               \* "off" | "ready" | "panic": position of the blitting exchange
    bin,               \* the viewport, the palette and the two RenderingData that are blitted
    frame_buffer,      \* the frame buffer, four bytes a pixel
    blits              \* which of the two RenderingData were blitted, oldest first

blitVars == <<bpc, bin, frame_buffer, blits>>

(* ---- two workers looping against the dispatcher and the engine --------- *)
VARIABLES
    loops,             \* per worker: its position in run and the task it holds
    pool,              \* the Server behind the mutex: range, tiles, tasks_queue, ...
    handed,            \* the tasks sent to workers, oldest first
    results,           \* FragmentResults written by workers and not yet read by the server
    render_q,          \* the render channel, oldest first
    portal_q,          \* number of RenderingData waiting in the portal channel
    shard_q,           \* the shards of the engine
    canvas,            \* the frame buffer of the engine
    redrawn,           \* number of RenderingData the engine has rendered
    epc                \* "off" | "running" | "panic": the event loop

loopVars == <<loops, pool, handed, results, render_q, portal_q, shard_q, canvas, redrawn, epc>>

(* ---- the tile planner, applied by itself ------------------------------- *)
VARIABLES
    plan_pc,           \* "off" | "ready" | "done": position of the planning exchange
    plan_in,           \* canvas width and height, tiles an axis and the viewport
    plan               \* the tiles regenerate_tiles made, each with the resolution tied to it

planVars == <<plan_pc, plan_in, plan>>

(* ---- pans of the viewport, applied by themselves ----------------------- *)
VARIABLES
    pan_pc,            \* "off" | "ready": position of the panning exchange
    pan_start,         \* the viewport before the pans, in f64 of reduced precision
    pan_view,          \* the viewport now
    pan_log            \* the pans applied so far, oldest first

panVars == <<pan_pc, pan_start, pan_view, pan_log>>

(* ---- one server, its keys and its requests, for a chosen number of tiles - *)
VARIABLES
    scene_pc,          \* "off" | "ready": position of the scene
    scene,             \* the server: range, tiles, tasks_queue, current_fractal, factor
    scene_log,         \* the key presses and requests so far, oldest first
    scene_task         \* the task the last request was answered with

sceneVars == <<scene_pc, scene, scene_log, scene_task>>

(* ---- the selections: fractal and palette, cycled by key and by route --- *)
VARIABLES
    cyc_pc,            \* "off" | "ready": position of the cycling exchange
    cyc,               \* the server whose current_fractal is cycled
    cyc_palette,       \* the palette of the window
    cyc_log            \* per event so far: its kind and the selections after it

cycleVars == <<cyc_pc, cyc, cyc_palette, cyc_log>>

(* ---- a FragmentTask through to_json, its text and from_json ------------ *)
VARIABLES
    json_pc,           \* "off" | "task" | "text" | "done": position of the round trip
    json_task,         \* the FragmentTask that is serialised
    json_text,         \* the text of to_json(task), token by token
    json_out           \* what from_json of the text returned

jsonVars == <<json_pc, json_task, json_text, json_out>>

(* ---- the worker subcommand and the loops it spawns --------------------- *)
VARIABLES
    count_pc,          \* "off" | "spawn" | "join": position of the worker subcommand
    count_arg,         \* --count: whether it is given, and its value
    handles            \* per spawned loop, oldest first: "spawned" | "running"

countVars == <<count_pc, count_arg, handles>>

(* ---- requests served side by side under the server's lock -------------- *)
VARIABLES
    d_pc,              \* per handler: "off" | "idle" | "waiting" | "locked" | "send"
    d_task,            \* per handler: the task its request was answered with
    d_lock,            \* owner of the server mutex, NoOwner when free
    desk,              \* the server the handlers share
    dispatched,        \* the tasks handed to requests since the last regenerate_tiles
    regens             \* calls of regenerate_tiles so far

dispatchVars == <<d_pc, d_task, d_lock, desk, dispatched, regens>>

(* ---- workers looping against the registry of the server ---------------- *)
VARIABLES
    g_pc,              \* per worker: "off" | "connect" | "request" | "perform" | "reconnect" | "result" | "shutdown" | "again"
    g_outer,           \* per worker: local port of the stream run opened before its loop, 0 for none
    g_inner,           \* per worker: local port of the stream opened for the result, 0 for none
    book,              \* server.workers: the name registered under each remote endpoint
    credited           \* per result so far: the worker that sent it and RenderingData.worker

registryVars == <<g_pc, g_outer, g_inner, book, credited>>

(* ---- the shards of the engine, one lock of a shard a step -------------- *)
VARIABLES
    in_pc,             \* the consumer task: "off" | "recv" | "scan"
    in_item,           \* the RenderingData the consumer holds, 0 for none
    in_at,             \* the shard the consumer examines next
    in_next,           \* the next RenderingData the render channel delivers
    in_slots,          \* rendering_data_shards: per shard the RenderingData in it, 0 for None
    pass_at,           \* the shard render examines next, 0 between two render passes
    in_blits,          \* per RenderingData: how often render has drawn it
    in_dropped         \* the RenderingData that found no shard

inboxVars == <<in_pc, in_item, in_at, in_next, in_slots, pass_at, in_blits, in_dropped>>

(* ---- the loops of render over one tile, a pixel a step ----------------- *)
VARIABLES
    t_pc,              \* "off" | "draw" | "done" | "panic": position in the loops of render
    t_tile,            \* resolution and iterations of the RenderingData that is drawn
    t_x,               \* x of the inner loop
    t_y,               \* y of the outer loop
    t_drawn            \* per draw_pixel so far: x, y and the index of the intensity it was given

tileVars == <<t_pc, t_tile, t_x, t_y, t_drawn>>

(* ---- the accept loop and what its listener returns --------------------- *)
VARIABLES
    l_loop,            \* handle_connections: "off" | "accepting" | "ended"
    l_log,             \* what listener.accept() returned so far, oldest first
    l_handlers,        \* per spawned handle_connection: "running" | "done"
    l_running,         \* the running flag of run_wrapper
    l_joined           \* join!(connection_handler) is over and execute_server has returned

acceptVars == <<l_loop, l_log, l_handlers, l_running, l_joined>>

(* what an exchange of the one leaves alone of the others                  *)
blitFrame == <<loopVars, planVars, panVars, sceneVars, cycleVars, jsonVars, countVars, dispatchVars, registryVars, inboxVars, tileVars, acceptVars>>

loopFrame == <<blitVars, planVars, panVars, sceneVars, cycleVars, jsonVars, countVars, dispatchVars, registryVars, inboxVars, tileVars, acceptVars>>

planFrame == <<blitVars, loopVars, panVars, sceneVars, cycleVars, jsonVars, countVars, dispatchVars, registryVars, inboxVars, tileVars, acceptVars>>

panFrame == <<blitVars, loopVars, planVars, sceneVars, cycleVars, jsonVars, countVars, dispatchVars, registryVars, inboxVars, tileVars, acceptVars>>

sceneFrame == <<blitVars, loopVars, planVars, panVars, cycleVars, jsonVars, countVars, dispatchVars, registryVars, inboxVars, tileVars, acceptVars>>

cycleFrame == <<blitVars, loopVars, planVars, panVars, sceneVars, jsonVars, countVars, dispatchVars, registryVars, inboxVars, tileVars, acceptVars>>

jsonFrame == <<blitVars, loopVars, planVars, panVars, sceneVars, cycleVars, countVars, dispatchVars, registryVars, inboxVars, tileVars, acceptVars>>

countFrame == <<blitVars, loopVars, planVars, panVars, sceneVars, cycleVars, jsonVars, dispatchVars, registryVars, inboxVars, tileVars, acceptVars>>

dispatchFrame == <<blitVars, loopVars, planVars, panVars, sceneVars, cycleVars, jsonVars, countVars, registryVars, inboxVars, tileVars, acceptVars>>

registryFrame == <<blitVars, loopVars, planVars, panVars, sceneVars, cycleVars, jsonVars, countVars, dispatchVars, inboxVars, tileVars, acceptVars>>

inboxFrame == <<blitVars, loopVars, planVars, panVars, sceneVars, cycleVars, jsonVars, countVars, dispatchVars, registryVars, tileVars, acceptVars>>

tileFrame == <<blitVars, loopVars, planVars, panVars, sceneVars, cycleVars, jsonVars, countVars, dispatchVars, registryVars, inboxVars, acceptVars>>

acceptFrame == <<blitVars, loopVars, planVars, panVars, sceneVars, cycleVars, jsonVars, countVars, dispatchVars, registryVars, inboxVars, tileVars>>

fnVars == <<blitVars, loopVars, planVars, panVars, sceneVars, cycleVars, jsonVars, countVars, dispatchVars, registryVars, inboxVars, tileVars, acceptVars>>

sideVars == <<codecVars, workerVars, haltVars, renderVars, fnVars>>

vars == <<serverVars, sideVars>>

connVars == <<pc, addr, msg, task, rd, sent, reads>>

(* a regenerate_tiles that refills the tiles and keeps the queued tasks    *)
regenerate_tiles_KeepsQueue(s) ==
    [s EXCEPT !.tiles = generate_tiles(s.range)]

regenerate_tiles(s) ==
    [s EXCEPT !.tiles = generate_tiles(s.range), !.tasks_queue = <<>>]

register_worker(s, endpoint, name) ==
    [s EXCEPT !.workers[endpoint] = name]

get_worker(s, endpoint) == s.workers[endpoint]

(* a dequeue_task that returns the head and leaves it in the queue         *)
dequeue_task_Peek(s) ==
    IF s.tasks_queue = <<>>
    THEN [task |-> NoTask, server |-> s]
    ELSE [task |-> Head(s.tasks_queue), server |-> s]

(* The task returned (NoTask for none) and the state left behind.          *)
dequeue_task(s) ==
    IF s.tasks_queue = <<>>
    THEN [task |-> NoTask, server |-> s]
    ELSE [task |-> Head(s.tasks_queue),
          server |-> [s EXCEPT !.tasks_queue = Tail(s.tasks_queue)]]

enqueue_task(s, t) == [s EXCEPT !.tasks_queue = Append(s.tasks_queue, t)]

(* a create_fragment_task that wraps the first tile and leaves it in place *)
create_fragment_task_NoPop(s) ==
    IF s.tiles = <<>>
    THEN [task |-> NoTask, server |-> s]
    ELSE [task |-> FragmentTask(Head(s.tiles), s.current_fractal, s.range), server |-> s]

create_fragment_task(s) ==
    IF s.tiles = <<>>
    THEN [task |-> NoTask, server |-> s]
    ELSE [task |-> FragmentTask(Head(s.tiles), s.current_fractal, s.range),
          server |-> [s EXCEPT !.tiles = Tail(s.tiles)]]

Shift(r, dx, dy) ==
    [minx |-> r.minx + dx, miny |-> r.miny + dy, maxx |-> r.maxx + dx, maxy |-> r.maxy + dy]

move_right(s) ==
    regenerate_tiles([s EXCEPT !.range = Shift(s.range, (s.range.maxx - s.range.minx) \div 10, 0)])

move_left(s) ==
    regenerate_tiles([s EXCEPT !.range = Shift(s.range, 0 - (s.range.maxx - s.range.minx) \div 10, 0)])

move_down(s) ==
    regenerate_tiles([s EXCEPT !.range = Shift(s.range, 0, (s.range.maxy - s.range.miny) \div 10)])

move_up(s) ==
    regenerate_tiles([s EXCEPT !.range = Shift(s.range, 0, 0 - (s.range.maxy - s.range.miny) \div 10)])

(* factor is given in tenths: 9 for 0.9, 11 for 1.1.                       *)
zoom(s, tenths) ==
    LET r  == s.range
        cx == (r.minx + r.maxx) \div 2
        cy == (r.miny + r.maxy) \div 2
        hx == ((r.maxx - r.minx) * tenths) \div 20
        hy == ((r.maxy - r.miny) * tenths) \div 20
    IN  regenerate_tiles([s EXCEPT !.range =
            [minx |-> cx - hx, miny |-> cy - hy, maxx |-> cx + hx, maxy |-> cy + hy]])

(* a cycle_fractal that advances the index without the modulo              *)
cycle_fractal_NoWrap(s) ==
    regenerate_tiles([s EXCEPT !.current_fractal = s.current_fractal + 1])

cycle_fractal(s) ==
    regenerate_tiles([s EXCEPT !.current_fractal = (s.current_fractal + 1) % NumFractals])

(* try-send of a state snapshot: dropped when the channel is closed or full *)
notify_portal(ch, p) ==
    IF p # "terminated" /\ ch < ChannelCapacity THEN ch + 1 ELSE ch

NoData == [worker |-> None, iterations |-> 0]

NoFrame == [task |-> NoTask, signature |-> <<>>]

NoInput == [kind |-> "none", json |-> <<>>, data |-> <<>>, has_data |-> FALSE,
            signature |-> <<>>, message_length |-> 0, json_length |-> 0, eof |-> TRUE,
            resolution |-> [nx |-> 0, ny |-> 0], offset |-> 0]

NoRaw == [status |-> "none", message_length |-> [hi |-> 0, lo |-> 0],
          json_length |-> [hi |-> 0, lo |-> 0],
          json_message |-> <<>>, data |-> <<>>]

MaxWorkerConns == 4

NoTile == [range |-> InitialRange, resolution |-> [nx |-> 0, ny |-> 0]]

CodecOff ==
    /\ cpc = "off"
    /\ cin = NoInput
    /\ wire = <<>>
    /\ raw = NoRaw

WorkerOff ==
    /\ wpc = "off"
    /\ outer = 0
    /\ inner = 0
    /\ opened = 0
    /\ written = [k \in 1..MaxWorkerConns |-> 0]
    /\ served = {}

(* the flag is true from the start of run_wrapper                          *)
HaltOff ==
    /\ running = TRUE
    /\ exited = FALSE

RenderOff ==
    /\ rpc = "off"
    /\ rview = InitialRange
    /\ rtile = NoTile
    /\ rwritten = {}

NoBlit == [view |-> InitialRange, palette |-> "Classic", data |-> <<>>]

BlitOff ==
    /\ bpc = "off"
    /\ bin = NoBlit
    /\ frame_buffer = <<>>
    /\ blits = <<>>

LoopOff ==
    /\ loops = <<>>
    /\ pool = <<>>
    /\ handed = <<>>
    /\ results = {}
    /\ render_q = <<>>
    /\ portal_q = 0
    /\ shard_q = <<>>
    /\ canvas = <<>>
    /\ redrawn = 0
    /\ epc = "off"

PlanOff ==
    /\ plan_pc = "off"
    /\ plan_in = [w |-> 0, h |-> 0, t |-> 0, view |-> InitialRange]
    /\ plan = <<>>

PanOff ==
    /\ pan_pc = "off"
    /\ pan_start = <<>>
    /\ pan_view = <<>>
    /\ pan_log = <<>>

SceneOff ==
    /\ scene_pc = "off"
    /\ scene = <<>>
    /\ scene_log = <<>>
    /\ scene_task = <<>>

CycleOff ==
    /\ cyc_pc = "off"
    /\ cyc = <<>>
    /\ cyc_palette = "Classic"
    /\ cyc_log = <<>>

JsonOff ==
    /\ json_pc = "off"
    /\ json_task = <<>>
    /\ json_text = <<>>
    /\ json_out = <<>>

CountOff ==
    /\ count_pc = "off"
    /\ count_arg = <<>>
    /\ handles = <<>>

DispatchOff ==
    /\ d_pc = <<>>
    /\ d_task = <<>>
    /\ d_lock = NoOwner
    /\ desk = <<>>
    /\ dispatched = <<>>
    /\ regens = 0

RegistryOff ==
    /\ g_pc = <<>>
    /\ g_outer = <<>>
    /\ g_inner = <<>>
    /\ book = <<>>
    /\ credited = <<>>

InboxOff ==
    /\ in_pc = "off"
    /\ in_item = 0
    /\ in_at = 0
    /\ in_next = 0
    /\ in_slots = <<>>
    /\ pass_at = 0
    /\ in_blits = <<>>
    /\ in_dropped = {}

TileOff ==
    /\ t_pc = "off"
    /\ t_tile = <<>>
    /\ t_x = 0
    /\ t_y = 0
    /\ t_drawn = <<>>

AcceptOff ==
    /\ l_loop = "off"
    /\ l_log = <<>>
    /\ l_handlers = <<>>
    /\ l_running = TRUE
    /\ l_joined = FALSE

FnOff ==
    /\ BlitOff
    /\ LoopOff
    /\ PlanOff
    /\ PanOff
    /\ SceneOff
    /\ CycleOff
    /\ JsonOff
    /\ CountOff
    /\ DispatchOff
    /\ RegistryOff
    /\ InboxOff
    /\ TileOff
    /\ AcceptOff

(* the side machines at rest, as they are in the runs of the server        *)
SideOff ==
    /\ CodecOff
    /\ WorkerOff
    /\ HaltOff
    /\ RenderOff
    /\ FnOff

(* The state after construction, or after earlier connections, now closed, *)
(* were handed all but the last tile of the first partition.               *)
InitialTiles == {generate_tiles(InitialRange),
                 SubSeq(generate_tiles(InitialRange), Tiles * Tiles, Tiles * Tiles)}

ServerInit ==
    /\ portal \in {"off", "running"}
    /\ \E tl \in InitialTiles :
          /\ server = [range |-> InitialRange, tiles |-> tl, tasks_queue |-> <<>>,
                       current_fractal |-> 0, workers |-> [a \in Addrs |-> None]]
          /\ created = SubSeq(generate_tiles(InitialRange), 1, Tiles * Tiles - Len(tl))
          /\ created_view = created
    /\ lock = NoOwner
    /\ pc = [c \in Conns |-> "idle"]
    /\ addr = [c \in Conns |-> 1]
    /\ msg = [c \in Conns |-> NoMessage]
    /\ task = [c \in Conns |-> NoTask]
    /\ rd = [c \in Conns |-> NoData]
    /\ sent = [c \in Conns |-> NoFrame]
    /\ reads = [c \in Conns |-> 0]
    /\ render_chan = <<>>
    /\ portal_chan = 0
    /\ portal_request_chan = 0
    /\ ppc = "recv"
    /\ shards = [i \in 1..ShardCount |-> NoData]
    /\ mutations = 0
    /\ portal_requests = 0
    /\ registered = [a \in Addrs |-> <<>>]
    /\ palette = "Classic"

InitCommon ==
    /\ ServerInit
    /\ SideOff

(* execute_server as written: with graphics the engine's future is created *)
(* and dropped, and the render receiver with it; without graphics the      *)
(* receiver stays alive in execute_server and nothing reads from it.       *)
Init ==
    /\ engine \in {"off", "dropped"}
    /\ InitCommon


(* ---- the accept loop and the connection handlers ---------------------- *)
Open(c) == pc[c] \notin {"idle", "closed", "rejected", "panicked"}

(* handle_connections: accept, then spawn handle_connection on the socket  *)
Accept(c, a) ==
    /\ pc[c] = "idle"
    /\ \A d \in Conns : d < c => pc[d] # "idle"
    /\ \A d \in Conns : Open(d) => addr[d] # a
    /\ pc' = [pc EXCEPT ![c] = "accepted"]
    /\ addr' = [addr EXCEPT ![c] = a]
    /\ UNCHANGED <<sideVars, engine, portal, server, lock, msg, task, rd, sent, reads, render_chan,
                   portal_chan, portal_request_chan, ppc, shards, mutations,
                   portal_requests, registered, palette, created, created_view>>

(* read_message_raw returns Ok(raw_message)                                *)
ReadMessage(c, m) ==
    /\ pc[c] = "accepted"
    /\ pc' = [pc EXCEPT ![c] = "read_header"]
    /\ msg' = [msg EXCEPT ![c] = m]
    /\ reads' = [reads EXCEPT ![c] = @ + 1]
    /\ UNCHANGED <<sideVars, engine, portal, server, lock, addr, task, rd, sent, render_chan,
                   portal_chan, portal_request_chan, ppc, shards, mutations,
                   portal_requests, registered, palette, created, created_view>>

(* a read error that brings every handler down with it                     *)
ReadFail_StopsServer(c) ==
    /\ pc[c] = "accepted"
    /\ pc' = [d \in Conns |-> "closed"]
    /\ UNCHANGED <<sideVars, engine, portal, server, lock, addr, msg, task, rd, sent, reads,
                   render_chan, portal_chan, portal_request_chan, ppc, shards, mutations,
                   portal_requests, registered, palette, created, created_view>>

(* read_message_raw returns Err: the handler logs and returns              *)
ReadFail(c) ==
    /\ pc[c] = "accepted"
    /\ pc' = [pc EXCEPT ![c] = "closed"]
    /\ UNCHANGED <<sideVars, engine, portal, server, lock, addr, msg, task, rd, sent, reads,
                   render_chan, portal_chan, portal_request_chan, ppc, shards, mutations,
                   portal_requests, registered, palette, created, created_view>>

(* a handler that tries the header as a FragmentRequest first              *)
Classify_RequestFirst(c) ==
    /\ pc[c] = "read_header"
    /\ pc' = [pc EXCEPT ![c] =
                IF "FragmentRequest" \in msg[c].keys THEN "classified_request"
                ELSE IF "FragmentResult" \in msg[c].keys THEN "classified_result"
                ELSE "closed"]
    /\ msg' = [msg EXCEPT ![c] =
                 IF msg[c].keys \cap {"FragmentResult", "FragmentRequest"} = {}
                 THEN NoMessage ELSE @]
    /\ UNCHANGED <<sideVars, engine, portal, server, lock, addr, task, rd, sent, reads,
                   render_chan, portal_chan, portal_request_chan, ppc, shards, mutations,
                   portal_requests, registered, palette, created, created_view>>

(* FragmentResult::from_json is tried first, then FragmentRequest::from_json *)
Classify(c) ==
    /\ pc[c] = "read_header"
    /\ pc' = [pc EXCEPT ![c] =
                IF "FragmentResult" \in msg[c].keys THEN "classified_result"
                ELSE IF "FragmentRequest" \in msg[c].keys THEN "classified_request"
                ELSE "closed"]
    /\ msg' = [msg EXCEPT ![c] =
                 IF msg[c].keys \cap {"FragmentResult", "FragmentRequest"} = {}
                 THEN NoMessage ELSE @]
    /\ UNCHANGED <<sideVars, engine, portal, server, lock, addr, task, rd, sent, reads,
                   render_chan, portal_chan, portal_request_chan, ppc, shards, mutations,
                   portal_requests, registered, palette, created, created_view>>

(* a handler that writes the registry without taking the lock              *)
ReqRegister_NoLock(c) ==
    /\ pc[c] = "classified_request"
    /\ lock' = lock
    /\ server' = register_worker(server, addr[c], msg[c].worker_name)
    /\ registered' = [registered EXCEPT ![addr[c]] = Append(@, msg[c].worker_name)]
    /\ pc' = [pc EXCEPT ![c] = "req_locked"]
    /\ UNCHANGED <<sideVars, engine, portal, addr, msg, task, rd, sent, reads, render_chan,
                   portal_chan, portal_request_chan, ppc, shards, mutations,
                   portal_requests, palette, created, created_view>>

(* process_fragment_request: lock, Worker::new, register_worker            *)
ReqRegister(c) ==
    /\ pc[c] = "classified_request"
    /\ lock = NoOwner
    /\ lock' = c
    /\ server' = register_worker(server, addr[c], msg[c].worker_name)
    /\ registered' = [registered EXCEPT ![addr[c]] = Append(@, msg[c].worker_name)]
    /\ pc' = [pc EXCEPT ![c] = "req_locked"]
    /\ UNCHANGED <<sideVars, engine, portal, addr, msg, task, rd, sent, reads, render_chan,
                   portal_chan, portal_request_chan, ppc, shards, mutations,
                   portal_requests, palette, created, created_view>>

(* a handler that only dequeues and never falls back on create_fragment_task *)
ReqTakeTask_DequeueOnly(c) ==
    /\ pc[c] = "req_locked"
    /\ lock = c
    /\ LET d == dequeue_task(server)
       IN  /\ server' = d.server
           /\ task' = [task EXCEPT ![c] = d.task]
           /\ pc' = [pc EXCEPT ![c] = IF d.task # NoTask THEN "req_send" ELSE "no_task"]
    /\ lock' = NoOwner
    /\ msg' = [msg EXCEPT ![c] = NoMessage]
    /\ UNCHANGED <<sideVars, engine, portal, addr, rd, sent, reads, render_chan, portal_chan,
                   portal_request_chan, ppc, shards, mutations, portal_requests,
                   registered, palette, created, created_view>>

(* dequeue_task, else create_fragment_task; the guard drops at the block's end *)
ReqTakeTask(c) ==
    /\ pc[c] = "req_locked"
    /\ lock = c
    /\ LET d == dequeue_task(server)
           r == IF d.task # NoTask THEN d ELSE create_fragment_task(server)
       IN  /\ server' = r.server
           /\ task' = [task EXCEPT ![c] = r.task]
           /\ created' = IF d.task = NoTask /\ r.task # NoTask
                         THEN Append(created, r.task.range) ELSE created
           /\ created_view' = IF d.task = NoTask /\ r.task # NoTask
                              THEN Append(created_view, r.task.range) ELSE created_view
           /\ pc' = [pc EXCEPT ![c] = IF r.task # NoTask THEN "req_send" ELSE "no_task"]
    /\ lock' = NoOwner
    /\ msg' = [msg EXCEPT ![c] = NoMessage]
    /\ UNCHANGED <<sideVars, engine, portal, addr, rd, sent, reads, render_chan, portal_chan,
                   portal_request_chan, ppc, shards, mutations, portal_requests, registered, palette>>

(* a handler that writes the task on another connection's socket           *)
ReqSend_OtherSocket(c, ok) ==
    /\ pc[c] = "req_send"
    /\ sent' = [sent EXCEPT ![(c % MaxConn) + 1] =
                  IF ok THEN [task |-> task[c], signature |-> Signature] ELSE @]
    /\ pc' = [pc EXCEPT ![c] = "serviced"]
    /\ UNCHANGED <<sideVars, engine, portal, server, lock, addr, msg, task, rd, reads, render_chan,
                   portal_chan, portal_request_chan, ppc, shards, mutations,
                   portal_requests, registered, palette, created, created_view>>

(* a handler that queues the task again when the write failed              *)
ReqSend_Requeues(c, ok) ==
    /\ pc[c] = "req_send"
    /\ sent' = [sent EXCEPT ![c] =
                  IF ok THEN [task |-> task[c], signature |-> Signature] ELSE @]
    /\ server' = IF ok THEN server ELSE enqueue_task(server, task[c])
    /\ pc' = [pc EXCEPT ![c] = "serviced"]
    /\ UNCHANGED <<sideVars, engine, portal, lock, addr, msg, task, rd, reads, render_chan,
                   portal_chan, portal_request_chan, ppc, shards, mutations,
                   portal_requests, registered, palette, created, created_view>>

(* send_fragment_task: the task's JSON and a 16-byte zero signature; a     *)
(* failed write is logged; the handler returns either way                  *)
ReqSend(c, ok) ==
    /\ pc[c] = "req_send"
    /\ sent' = [sent EXCEPT ![c] =
                  IF ok THEN [task |-> task[c], signature |-> Signature] ELSE @]
    /\ pc' = [pc EXCEPT ![c] = "serviced"]
    /\ UNCHANGED <<sideVars, engine, portal, server, lock, addr, msg, task, rd, reads, render_chan,
                   portal_chan, portal_request_chan, ppc, shards, mutations,
                   portal_requests, registered, palette, created, created_view>>

(* a handler that decodes the whole pixels of a misaligned payload         *)
ResSlice_Truncates(c) ==
    /\ pc[c] = "classified_result"
    /\ pc' = [pc EXCEPT ![c] =
                IF msg[c].offset > msg[c].len THEN "panicked" ELSE "decoded"]
    /\ rd' = [rd EXCEPT ![c] =
                IF msg[c].offset <= msg[c].len
                THEN [worker |-> None, iterations |-> (msg[c].len - msg[c].offset) \div 8]
                ELSE @]
    /\ msg' = [msg EXCEPT ![c] = NoMessage]
    /\ UNCHANGED <<sideVars, engine, portal, server, lock, addr, task, sent, reads,
                   render_chan, portal_chan, portal_request_chan, ppc, shards, mutations,
                   portal_requests, registered, palette, created, created_view>>

(* process_fragment_result: &data[offset..] (a panic when offset exceeds   *)
(* the length), the alignment check (the handler returns: "rejected") and  *)
(* the decoding of the counts; the raw message is not read afterwards      *)
ResSlice(c) ==
    /\ pc[c] = "classified_result"
    /\ pc' = [pc EXCEPT ![c] =
                IF msg[c].offset > msg[c].len THEN "panicked"
                ELSE IF (msg[c].len - msg[c].offset) % 8 # 0 THEN "rejected"
                ELSE "decoded"]
    /\ rd' = [rd EXCEPT ![c] =
                IF msg[c].offset <= msg[c].len /\ (msg[c].len - msg[c].offset) % 8 = 0
                THEN [worker |-> None, iterations |-> (msg[c].len - msg[c].offset) \div 8]
                ELSE @]
    /\ msg' = [msg EXCEPT ![c] = NoMessage]
    /\ UNCHANGED <<sideVars, engine, portal, server, lock, addr, task, sent, reads,
                   render_chan, portal_chan, portal_request_chan, ppc, shards, mutations,
                   portal_requests, registered, palette, created, created_view>>

(* a handler that registers the unknown endpoint under the synthesized name *)
ResLookup_Registers(c) ==
    /\ pc[c] = "decoded"
    /\ lock = NoOwner
    /\ lock' = c
    /\ rd' = [rd EXCEPT ![c].worker =
                IF get_worker(server, addr[c]) # None
                THEN get_worker(server, addr[c]) ELSE Placeholder]
    /\ server' = IF get_worker(server, addr[c]) # None THEN server
                 ELSE register_worker(server, addr[c], Placeholder)
    /\ pc' = [pc EXCEPT ![c] = "res_locked"]
    /\ UNCHANGED <<sideVars, engine, portal, addr, msg, task, sent, reads, render_chan,
                   portal_chan, portal_request_chan, ppc, shards, mutations,
                   portal_requests, registered, palette, created, created_view>>

(* lock; get_worker(&socket_addr) or a synthesized name                    *)
ResLookup(c) ==
    /\ pc[c] = "decoded"
    /\ lock = NoOwner
    /\ lock' = c
    /\ rd' = [rd EXCEPT ![c].worker =
                IF get_worker(server, addr[c]) # None
                THEN get_worker(server, addr[c]) ELSE Placeholder]
    /\ pc' = [pc EXCEPT ![c] = "res_locked"]
    /\ UNCHANGED <<sideVars, engine, portal, server, addr, msg, task, sent, reads, render_chan,
                   portal_chan, portal_request_chan, ppc, shards, mutations,
                   portal_requests, registered, palette, created, created_view>>

(* a guard that lives on into the awaits that follow                       *)
ResUnlock_KeepsGuard(c) ==
    /\ pc[c] = "res_locked"
    /\ lock = c
    /\ lock' = c
    /\ pc' = [pc EXCEPT ![c] = "portal_send"]
    /\ UNCHANGED <<sideVars, engine, portal, server, addr, msg, task, rd, sent, reads, render_chan,
                   portal_chan, portal_request_chan, ppc, shards, mutations,
                   portal_requests, registered, palette, created, created_view>>

(* the guard drops at the end of the block                                 *)
ResUnlock(c) ==
    /\ pc[c] = "res_locked"
    /\ lock = c
    /\ lock' = NoOwner
    /\ pc' = [pc EXCEPT ![c] = "portal_send"]
    /\ UNCHANGED <<sideVars, engine, portal, server, addr, msg, task, rd, sent, reads, render_chan,
                   portal_chan, portal_request_chan, ppc, shards, mutations,
                   portal_requests, registered, palette, created, created_view>>

(* portal_tx.send(..).await: Err when the receiver is gone, waits while    *)
(* the channel is full                                                     *)
PortalSend(c) ==
    /\ pc[c] = "portal_send"
    /\ \/ /\ portal = "terminated"
          /\ UNCHANGED portal_chan
       \/ /\ portal # "terminated"
          /\ portal_chan < ChannelCapacity
          /\ portal_chan' = portal_chan + 1
    /\ pc' = [pc EXCEPT ![c] = "notify"]
    /\ UNCHANGED <<sideVars, engine, portal, server, lock, addr, msg, task, rd, sent, reads,
                   render_chan, portal_request_chan, ppc, shards, mutations,
                   portal_requests, registered, palette, created, created_view>>

(* server.lock().unwrap().notify_portal()                                  *)
NotifyPortal(c) ==
    /\ pc[c] = "notify"
    /\ lock = NoOwner
    /\ portal_chan' = notify_portal(portal_chan, portal)
    /\ pc' = [pc EXCEPT ![c] = "render_send"]
    /\ UNCHANGED <<sideVars, engine, portal, server, lock, addr, msg, task, rd, sent, reads,
                   render_chan, portal_request_chan, ppc, shards, mutations,
                   portal_requests, registered, palette, created, created_view>>

(* render_tx.send(rendering_data).await, then the handler returns          *)
RenderSend(c) ==
    /\ pc[c] = "render_send"
    /\ \/ /\ engine = "dropped"
          /\ UNCHANGED render_chan
       \/ /\ engine # "dropped"
          /\ Len(render_chan) < ChannelCapacity
          /\ render_chan' = Append(render_chan, rd[c])
    /\ pc' = [pc EXCEPT ![c] = "serviced"]
    /\ UNCHANGED <<sideVars, engine, portal, server, lock, addr, msg, task, rd, sent, reads,
                   portal_chan, portal_request_chan, ppc, shards, mutations,
                   portal_requests, registered, palette, created, created_view>>

(* a handler that keeps the connection and goes back to reading            *)
Close_KeepAlive(c) ==
    /\ pc[c] \in {"serviced", "no_task"}
    /\ pc' = [pc EXCEPT ![c] = "accepted"]
    /\ msg' = [msg EXCEPT ![c] = NoMessage]
    /\ task' = [task EXCEPT ![c] = NoTask]
    /\ rd' = [rd EXCEPT ![c] = NoData]
    /\ UNCHANGED <<sideVars, engine, portal, server, lock, addr, sent, reads,
                   render_chan, portal_chan, portal_request_chan, ppc, shards, mutations,
                   portal_requests, registered, palette, created, created_view>>

(* handle_connection returns: the socket is dropped                        *)
Close(c) ==
    /\ pc[c] \in {"serviced", "no_task"}
    /\ pc' = [pc EXCEPT ![c] = "closed"]
    /\ msg' = [msg EXCEPT ![c] = NoMessage]
    /\ task' = [task EXCEPT ![c] = NoTask]
    /\ rd' = [rd EXCEPT ![c] = NoData]
    /\ UNCHANGED <<sideVars, engine, portal, server, lock, addr, sent, reads,
                   render_chan, portal_chan, portal_request_chan, ppc, shards, mutations,
                   portal_requests, registered, palette, created, created_view>>

(* ---- the portal -------------------------------------------------------- *)
(* WsFragmentProcessor::handle: a websocket client submits a FragmentRequest *)
PortalRequestSubmit ==
    /\ portal = "running"
    /\ portal_requests < MaxPortalRequests
    /\ portal_request_chan < ChannelCapacity
    /\ portal_request_chan' = portal_request_chan + 1
    /\ portal_requests' = portal_requests + 1
    /\ UNCHANGED <<sideVars, engine, portal, server, lock, pc, addr, msg, task, rd, sent, reads,
                   render_chan, portal_chan, ppc, shards, mutations, registered,
                   palette, created, created_view>>

(* execute_server: portal_request_rx.recv().await returns Some(request)    *)
PortalRecv ==
    /\ portal # "off"
    /\ ppc = "recv"
    /\ portal_request_chan > 0
    /\ portal_request_chan' = portal_request_chan - 1
    /\ ppc' = "got"
    /\ UNCHANGED <<sideVars, engine, portal, server, lock, pc, addr, msg, task, rd, sent, reads,
                   render_chan, portal_chan, shards, mutations, portal_requests,
                   registered, palette, created, created_view>>

(* process_portal_fragment_request: lock, create_fragment_task, enqueue_task *)
PortalProcess ==
    /\ ppc = "got"
    /\ lock = NoOwner
    /\ lock' = PortalTask
    /\ LET r == create_fragment_task(server)
       IN  /\ server' = IF r.task # NoTask THEN enqueue_task(r.server, r.task) ELSE r.server
           /\ created' = IF r.task # NoTask THEN Append(created, r.task.range) ELSE created
           /\ created_view' = IF r.task # NoTask
                              THEN Append(created_view, r.task.range) ELSE created_view
    /\ ppc' = "locked"
    /\ UNCHANGED <<sideVars, engine, portal, pc, addr, msg, task, rd, sent, reads, render_chan,
                   portal_chan, portal_request_chan, shards, mutations, portal_requests,
                   registered, palette>>

(* the guard drops when process_portal_fragment_request returns            *)
PortalReturn ==
    /\ ppc = "locked"
    /\ lock = PortalTask
    /\ lock' = NoOwner
    /\ ppc' = "recv"
    /\ UNCHANGED <<sideVars, engine, portal, server, pc, addr, msg, task, rd, sent, reads,
                   render_chan, portal_chan, portal_request_chan, shards, mutations,
                   portal_requests, registered, palette, created, created_view>>

(* GET /fractal/move?direction=..                                          *)
move_fractal(s, direction) ==
    CASE direction = "top"    -> move_up(s)
      [] direction = "right"  -> move_right(s)
      [] direction = "bottom" -> move_down(s)
      [] direction = "left"   -> move_left(s)
      [] OTHER                -> s

PortalMove(direction) ==
    /\ portal = "running"
    /\ lock = NoOwner
    /\ mutations < MaxMutations
    /\ server' = move_fractal(server, direction)
    /\ mutations' = IF direction \in {"top", "right", "bottom", "left"}
                    THEN mutations + 1 ELSE mutations
    /\ created' = IF direction \in {"top", "right", "bottom", "left"} THEN <<>> ELSE created
    /\ created_view' = IF direction \in {"top", "right", "bottom", "left"}
                       THEN <<>> ELSE created_view
    /\ UNCHANGED <<sideVars, engine, portal, lock, pc, addr, msg, task, rd, sent, reads,
                   render_chan, portal_chan, portal_request_chan, ppc, shards,
                   portal_requests, registered, palette>>

(* GET /fractal/cycle: every direction cycles                              *)
PortalCycle ==
    /\ portal = "running"
    /\ lock = NoOwner
    /\ mutations < MaxMutations
    /\ server' = cycle_fractal(server)
    /\ mutations' = mutations + 1
    /\ created' = <<>>
    /\ created_view' = <<>>
    /\ UNCHANGED <<sideVars, engine, portal, lock, pc, addr, msg, task, rd, sent, reads,
                   render_chan, portal_chan, portal_request_chan, ppc, shards,
                   portal_requests, registered, palette>>

(* start_polling_rendering_data: a websocket client's try_recv             *)
PortalDrain ==
    /\ portal = "running"
    /\ portal_chan > 0
    /\ portal_chan' = portal_chan - 1
    /\ UNCHANGED <<sideVars, engine, portal, server, lock, pc, addr, msg, task, rd, sent, reads,
                   render_chan, portal_request_chan, ppc, shards, mutations,
                   portal_requests, registered, palette, created, created_view>>

(* run_portal returns (bind failure, server stopped): its receiver drops   *)
PortalTerminate ==
    /\ portal = "running"
    /\ portal' = "terminated"
    /\ portal_chan' = 0
    /\ UNCHANGED <<sideVars, engine, server, lock, pc, addr, msg, task, rd, sent, reads,
                   render_chan, portal_request_chan, ppc, shards, mutations,
                   portal_requests, registered, palette, created, created_view>>

(* ---- the graphics engine ---------------------------------------------- *)
(* a cycle_palette that never reaches Grayscale                            *)
cycle_palette_Swap(p) ==
    CASE p = "Classic"   -> "Inverted"
      [] p = "Inverted"  -> "Classic"
      [] p = "Grayscale" -> "Classic"

(* PaletteHandler::cycle_palette                                           *)
cycle_palette(p) ==
    CASE p = "Classic"   -> "Inverted"
      [] p = "Inverted"  -> "Grayscale"
      [] p = "Grayscale" -> "Classic"

(* the key bindings of the event loop; each takes the lock for one call    *)
KeyServer(s, key) ==
    CASE key = "Right" -> move_right(s)
      [] key = "Left"  -> move_left(s)
      [] key = "Down"  -> move_down(s)
      [] key = "Up"    -> move_up(s)
      [] key = "P"     -> zoom(s, 9)
      [] key = "M"     -> zoom(s, 11)
      [] key = "K"     -> cycle_fractal(s)
      [] key = "C"     -> regenerate_tiles(s)

Keys == {"Right", "Left", "Down", "Up", "P", "M", "K", "C"}

KeyPress(key) ==
    /\ engine = "running"
    /\ lock = NoOwner
    /\ mutations < MaxMutations
    /\ server' = KeyServer(server, key)
    /\ palette' = IF key = "C" THEN cycle_palette(palette) ELSE palette
    /\ mutations' = mutations + 1
    /\ created' = <<>>
    /\ created_view' = IF key = "C" THEN created_view ELSE <<>>
    /\ UNCHANGED <<sideVars, engine, portal, lock, pc, addr, msg, task, rd, sent, reads,
                   render_chan, portal_chan, portal_request_chan, ppc, shards,
                   portal_requests, registered>>

FirstEmpty(sh) ==
    IF \E i \in 1..ShardCount : sh[i] = NoData
    THEN CHOOSE i \in 1..ShardCount : sh[i] = NoData /\ \A j \in 1..(i - 1) : sh[j] # NoData
    ELSE 0

(* the consumer task: recv, then the first shard that is None              *)
ConsumerRecv ==
    /\ engine = "running"
    /\ render_chan # <<>>
    /\ render_chan' = Tail(render_chan)
    /\ shards' = IF FirstEmpty(shards) = 0 THEN shards
                 ELSE [shards EXCEPT ![FirstEmpty(shards)] = Head(render_chan)]
    /\ UNCHANGED <<sideVars, engine, portal, server, lock, pc, addr, msg, task, rd, sent, reads,
                   portal_chan, portal_request_chan, ppc, mutations, portal_requests,
                   registered, palette, created, created_view>>

(* GraphicsWorld::render: every occupied shard is taken and drawn;         *)
(* start_point takes the server lock for each of them                      *)
RenderPass ==
    /\ engine = "running"
    /\ \E i \in 1..ShardCount : shards[i] # NoData
    /\ lock = NoOwner
    /\ shards' = [i \in 1..ShardCount |-> NoData]
    /\ UNCHANGED <<sideVars, engine, portal, server, lock, pc, addr, msg, task, rd, sent, reads,
                   render_chan, portal_chan, portal_request_chan, ppc, mutations,
                   portal_requests, registered, palette, created, created_view>>

(* ---- specifications ---------------------------------------------------- *)
ConnNext ==
    \/ \E c \in Conns, a \in Addrs : Accept(c, a)
    \/ \E c \in Conns, m \in Messages : ReadMessage(c, m)
    \/ \E c \in Conns : ReadFail(c)
    \/ \E c \in Conns : Classify(c)
    \/ \E c \in Conns : ReqRegister(c)
    \/ \E c \in Conns : ReqTakeTask(c)
    \/ \E c \in Conns, ok \in BOOLEAN : ReqSend(c, ok)
    \/ \E c \in Conns : ResSlice(c)
    \/ \E c \in Conns : ResLookup(c)
    \/ \E c \in Conns : ResUnlock(c)
    \/ \E c \in Conns : PortalSend(c)
    \/ \E c \in Conns : NotifyPortal(c)
    \/ \E c \in Conns : RenderSend(c)
    \/ \E c \in Conns : Close(c)

PortalNext ==
    \/ PortalRequestSubmit
    \/ PortalRecv
    \/ PortalProcess
    \/ PortalReturn
    \/ PortalDrain
    \/ PortalTerminate

PortalViewNext ==
    \/ \E d \in {"top", "right", "bottom", "left", "other"} : PortalMove(d)
    \/ PortalCycle

EngineNext ==
    \/ \E k \in Keys : KeyPress(k)
    \/ ConsumerRecv
    \/ RenderPass

Next == ConnNext \/ PortalNext

Spec == Init /\ [][Next]_vars

(* launch_graphics_engine polled to its event loop: the engine holds the   *)
(* render receiver                                                         *)
InitEngine ==
    /\ engine = "running"
    /\ InitCommon

NextEngine == ConnNext \/ PortalNext \/ PortalViewNext \/ EngineNext

EngineSpec == InitEngine /\ [][NextEngine]_vars

(* The dispatch side with the view changing: connections that carry       *)
(* requests, the portal-request task, the key bindings of the running      *)
(* engine and the portal's view routes.                                    *)
ViewNext ==
    \/ \E c \in Conns, a \in Addrs : Accept(c, a)
    \/ \E c \in Conns, m \in RequestMessages \cup UnknownMessages : ReadMessage(c, m)
    \/ \E c \in Conns : ReadFail(c)
    \/ \E c \in Conns : Classify(c)
    \/ \E c \in Conns : ReqRegister(c)
    \/ \E c \in Conns : ReqTakeTask(c)
    \/ \E c \in Conns, ok \in BOOLEAN : ReqSend(c, ok)
    \/ \E c \in Conns : Close(c)
    \/ PortalRequestSubmit
    \/ PortalRecv
    \/ PortalProcess
    \/ PortalReturn
    \/ PortalViewNext
    \/ \E k \in Keys : KeyPress(k)

ViewSpec == InitEngine /\ [][ViewNext]_vars

(* ======================================================================= *)
(* Properties                                                              *)
(* ======================================================================= *)
Rank(p) ==
    CASE p = "idle" -> 0
      [] p = "accepted" -> 1
      [] p = "read_header" -> 2
      [] p \in {"classified_result", "classified_request"} -> 3
      [] p \in {"req_locked", "req_send", "decoded", "res_locked", "portal_send",
                "notify", "render_send"} -> 4
      [] p \in {"serviced", "no_task"} -> 5
      [] p \in {"closed", "rejected", "panicked"} -> 6

(* C1: every handler moves through Accepted, ReadHeader, Classified,       *)
(* Serviced, Closed in that order, never backwards and never into a later  *)
(* stage without the one before it (only Closed may be entered early, on   *)
(* an error); it reads one framed message, while Accepted, and after the   *)
(* message is serviced the only step left is the close.                    *)
C1_OneMessagePerConnection ==
    [][\A c \in Conns :
          /\ Rank(pc'[c]) >= Rank(pc[c])
          /\ Rank(pc'[c]) \in 1..5 => Rank(pc[c]) \in {Rank(pc'[c]) - 1, Rank(pc'[c])}
          /\ reads'[c] <= 1
          /\ reads'[c] # reads[c] => pc[c] = "accepted" /\ pc'[c] = "read_header"
          /\ Rank(pc[c]) = 5 => pc'[c] \in {pc[c], "closed"}
          /\ Rank(pc[c]) = 6 => pc'[c] = pc[c] /\ reads'[c] = reads[c]]_vars

C1_Witness ==
    \E c \in Conns : pc[c] = "closed" /\ reads[c] = 1 /\ sent[c] # NoFrame

(* C2: the step that takes a task for a request is made with the worker of *)
(* that request already registered under the connection's endpoint, inside *)
(* the same critical section; a frame is written only by the handler that  *)
(* is sending, only on its own connection, and it is the task it took      *)
(* followed by sixteen zero bytes.                                         *)
C2_RegisterThenSendOnSameConnection ==
    [][\A c \in Conns :
          /\ task'[c] # task[c] /\ task'[c] # NoTask =>
                /\ lock = c
                /\ pc[c] = "req_locked"
                /\ server.workers[addr[c]] = msg[c].worker_name
                /\ msg[c].worker_name \in Names
          /\ sent'[c] # sent[c] =>
                /\ pc[c] = "req_send"
                /\ sent'[c].task = task[c]
                /\ Len(sent'[c].signature) = 16
                /\ \A i \in 1..16 : sent'[c].signature[i] = 0
                /\ \A d \in Conns \ {c} : sent'[d] = sent[d]]_vars

C2_Witness ==
    \E c \in Conns :
        /\ pc[c] = "serviced"
        /\ sent[c] = [task |-> task[c], signature |-> Signature]
        /\ task[c] # NoTask
        /\ server.workers[addr[c]] \in Names

LastRegistered(a) ==
    IF registered[a] = <<>> THEN None ELSE registered[a][Len(registered[a])]

(* C6: the registry always maps every endpoint to the name of the latest   *)
(* register_worker call made for it (none if there was no call); a step    *)
(* that writes the registry, or that reads it for a result, is a step that *)
(* takes the free server lock, so no two tasks touch it at once.           *)
C6_RegistryUnderLockLastWriteWins ==
    /\ [](\A a \in Addrs : server.workers[a] = LastRegistered(a))
    /\ [][/\ server'.workers # server.workers =>
                lock = NoOwner /\ lock' \in Conns /\ pc'[lock'] = "req_locked"
          /\ \A c \in Conns :
                rd'[c].worker # rd[c].worker /\ rd'[c].worker # None =>
                    lock = NoOwner /\ lock' = c /\ pc'[c] = "res_locked"]_vars

C6_Witness ==
    \E a \in Addrs :
        /\ Len(registered[a]) = 2
        /\ registered[a][1] # registered[a][2]
        /\ server.workers[a] = registered[a][2]

ResultPcs ==
    {"classified_result", "decoded", "res_locked", "portal_send", "notify", "render_send"}

(* C7: no step of a handler that services a FragmentResult changes the     *)
(* server state (registry, tile list, task queue, viewport, fractal); the  *)
(* RenderingData of a result whose endpoint is not in the registry carries *)
(* the placeholder name, and what the handler puts on the render channel   *)
(* is that RenderingData.                                                  *)
C7_ResultLeavesServerStateUnchanged ==
    /\ [](\A c \in Conns :
            pc[c] \in {"res_locked", "portal_send", "notify", "render_send"} =>
                rd[c].worker = IF server.workers[addr[c]] = None
                               THEN Placeholder ELSE server.workers[addr[c]])
    /\ [][\A c \in Conns :
            pc[c] \in ResultPcs /\ pc'[c] # pc[c] =>
                /\ server' = server
                /\ registered' = registered
                /\ render_chan' # render_chan => render_chan' = Append(render_chan, rd[c])]_vars

C7_Witness ==
    \E c \in Conns :
        /\ pc[c] = "serviced"
        /\ rd[c].worker = Placeholder
        /\ server.workers[addr[c]] = None
        /\ render_chan # <<>>
        /\ render_chan[Len(render_chan)] = rd[c]

(* C8: a task that is at a suspension point (reading its socket, writing   *)
(* the task, sending on the portal or render channel, receiving a portal   *)
(* request) or that is over does not own the server lock: the lock is      *)
(* owned only inside the lock scopes of the request handler, the result    *)
(* handler and process_portal_fragment_request.                            *)
C8_NoLockAcrossSuspension ==
    /\ \A c \in Conns :
          pc[c] \in {"idle", "accepted", "req_send", "portal_send", "render_send",
                     "serviced", "no_task", "closed", "rejected", "panicked"} => lock # c
    /\ ppc \in {"recv", "got"} => lock # PortalTask
    /\ lock \in Conns => pc[lock] \in {"req_locked", "res_locked"}
    /\ lock = PortalTask => ppc = "locked"

C8_Witness ==
    \E c, d \in Conns :
        /\ lock = c
        /\ pc[c] = "req_locked"
        /\ pc[d] = "render_send"

(* C9: a handler that has reached one of its two channel sends can always  *)
(* complete it at once, whatever the channel holds.                        *)
C9_HandlerNeverWaitsOnChannel ==
    \A c \in Conns :
        /\ pc[c] = "portal_send" => ENABLED PortalSend(c)
        /\ pc[c] = "render_send" => ENABLED RenderSend(c)

(* C10: no handler holding a decoded result is kept from its render-channel *)
(* send by the portal: it is never waiting to send on a full portal channel *)
(* that, the portal being disabled, nothing receives from.                 *)
C10_RenderOfferIndependentOfPortal ==
    \A c \in Conns :
        ~(pc[c] = "portal_send" /\ portal = "off" /\ portal_chan = ChannelCapacity)

NoDuplicates(q) ==
    \A i, j \in 1..Len(q) : i # j => q[i] # q[j]

InPartition(t, s) ==
    /\ t.fractal = s.current_fractal
    /\ \E k \in 1..(Tiles * Tiles) : t.range = generate_tiles(s.range)[k]

(* C5: whenever the lock is free, the tiles left are a suffix of the       *)
(* partition of the current viewport and every queued task is a tile of    *)
(* that partition for the current fractal; and a task handed to a request  *)
(* handler is one for the viewport and fractal current at that step.       *)
C5_QueueReflectsCurrentView ==
    /\ [](lock = NoOwner =>
            /\ \E k \in 0..(Tiles * Tiles) :
                  server.tiles = SubSeq(generate_tiles(server.range), k + 1, Tiles * Tiles)
            /\ \A i \in 1..Len(server.tasks_queue) :
                  InPartition(server.tasks_queue[i], server))
    /\ [][\A c \in Conns :
            pc[c] = "req_locked" /\ pc'[c] = "req_send" =>
                InPartition(task'[c], server')]_vars

C5_Witness ==
    \E c \in Conns :
        /\ server.range # InitialRange
        /\ pc[c] = "req_send"
        /\ InPartition(task[c], server)
        /\ lock = NoOwner

TransportFailure(c) ==
    \/ pc[c] = "accepted" /\ pc'[c] = "closed"
    \/ pc[c] = "req_send" /\ pc'[c] = "serviced" /\ sent'[c] = NoFrame

(* C11: a step in which a connection's read fails or its task write fails  *)
(* ends that handler only: the server state, the lock, the channels and    *)
(* the position of every other handler are as before the step; and in      *)
(* every state the accept loop can accept the next connection from an      *)
(* endpoint that has no open connection, whatever became of the others.    *)
C11_TransportErrorIsLocal ==
    /\ [][\A c \in Conns :
            TransportFailure(c) =>
                /\ server' = server
                /\ lock' = lock
                /\ registered' = registered
                /\ render_chan' = render_chan
                /\ portal_chan' = portal_chan
                /\ \A d \in Conns \ {c} : pc'[d] = pc[d]]_vars
    /\ [](\A c \in Conns :
            pc[c] = "idle" /\ (\A d \in Conns : d < c => pc[d] # "idle") =>
                \E a \in Addrs : ENABLED Accept(c, a))

C11_Witness ==
    \E c, d \in Conns :
        /\ pc[c] = "closed"
        /\ reads[c] = 0
        /\ pc[d] = "serviced"
        /\ sent[d] # NoFrame

(* C13: a handler whose payload, after the first pixels.offset bytes, has  *)
(* a length that is not a multiple of 8 returns at the check: the step     *)
(* leaves the server state, the render channel and the portal channel      *)
(* unchanged, and a handler that has returned there takes no further step. *)
C13_MisalignedResultRejected ==
    [][\A c \in Conns :
          /\ ( /\ pc[c] = "classified_result"
               /\ msg[c].offset <= msg[c].len
               /\ (msg[c].len - msg[c].offset) % 8 # 0
               /\ pc'[c] # pc[c] ) =>
                  /\ pc'[c] = "rejected"
                  /\ server' = server
                  /\ render_chan' = render_chan
                  /\ portal_chan' = portal_chan
          /\ pc[c] = "rejected" =>
                  /\ pc'[c] = "rejected"
                  /\ rd'[c] = NoData]_vars

C13_Witness ==
    \E c, d \in Conns :
        /\ pc[c] = "rejected"
        /\ pc[d] = "serviced"
        /\ render_chan # <<>>

(* C14: every RenderingData in the render channel has as many iterations   *)
(* as its header's resolution has pixels (nx * ny).                        *)
C14_IterationsMatchResolution ==
    \A i \in 1..Len(render_chan) :
        render_chan[i].iterations = ResultResolution.nx * ResultResolution.ny

(* ======================================================================= *)
(* The wire codec: send_message, send_result and read_message_raw over a   *)
(* byte stream that holds one frame                                        *)
(* ======================================================================= *)
MaxJson == 2
MaxData == 2
(* A u32 is kept as its two 16-bit halves, so that the arithmetic below is *)
(* that of 32-bit words.                                                   *)
Half == 256 * 256

(* `n as u32` of a length n                                                *)
U32(n) == [hi |-> (n \div Half) % Half, lo |-> n % Half]

wrapping_add(a, b) ==
    [hi |-> (a.hi + b.hi + (a.lo + b.lo) \div Half) % Half, lo |-> (a.lo + b.lo) % Half]

wrapping_sub(a, b) ==
    [hi |-> (a.hi - b.hi - (IF a.lo < b.lo THEN 1 ELSE 0) + 2 * Half) % Half,
     lo |-> (a.lo - b.lo + Half) % Half]

GreaterU32(a, b) == a.hi > b.hi \/ (a.hi = b.hi /\ a.lo > b.lo)

(* a u32 `as usize` is at most n                                           *)
AtMost(a, n) == a.hi = 0 /\ a.lo <= n

(* u32::to_be_bytes and u32::from_be_bytes                                 *)
to_be_bytes(a) == <<a.hi \div 256, a.hi % 256, a.lo \div 256, a.lo % 256>>

from_be_bytes(q) == [hi |-> q[1] * 256 + q[2], lo |-> q[3] * 256 + q[4]]

SeqsUpTo(S, n) == UNION {[1..k -> S] : k \in 0..n}

(* bytes of a JSON header: two ASCII bytes and one byte that no UTF-8 text *)
(* contains; bytes of a payload                                            *)
JsonBytes == {123, 125, 255}
DataBytes == {0, 255}

ValidUtf8(q) == \A i \in 1..Len(q) : q[i] < 128

(* String::from_utf8_lossy(..).to_string(), as bytes: a byte that is not   *)
(* part of a UTF-8 sequence becomes U+FFFD (EF BF BD). Exact for strings   *)
(* of ASCII bytes and lone bytes >= 0x80 that start no sequence.           *)
RECURSIVE from_utf8_lossy(_)
from_utf8_lossy(q) ==
    IF q = <<>> THEN <<>>
    ELSE (IF Head(q) < 128 THEN <<Head(q)>> ELSE <<239, 191, 189>>) \o from_utf8_lossy(Tail(q))

(* a send_message that writes the payload's length as the second length    *)
send_message_DataLengthSecond(json_message, has_data, data) ==
    LET json_message_size == U32(Len(json_message))
        data_size == IF has_data THEN U32(Len(data)) ELSE U32(0)
        total_message_size == wrapping_add(json_message_size, data_size)
    IN  to_be_bytes(total_message_size) \o to_be_bytes(data_size)
            \o json_message \o (IF has_data THEN data ELSE <<>>)

(* send_message(stream, json_message, data): what write_all puts on the wire *)
send_message(json_message, has_data, data) ==
    LET json_message_size == U32(Len(json_message))
        data_size == IF has_data THEN U32(Len(data)) ELSE U32(0)
        total_message_size == wrapping_add(json_message_size, data_size)
    IN  to_be_bytes(total_message_size) \o to_be_bytes(json_message_size)
            \o json_message \o (IF has_data THEN data ELSE <<>>)

(* a send_result that leaves the signature out of the first length         *)
send_result_ShortTotal(json_message, binary_data, signature) ==
    LET total_message_size == U32(Len(json_message) + Len(binary_data))
    IN  to_be_bytes(total_message_size) \o to_be_bytes(U32(Len(json_message)))
            \o json_message \o signature \o binary_data

(* send_result: write_u32(total), write_json_message (length, then text),  *)
(* write_binary_data(signature), write_binary_data(binary_data)            *)
send_result(json_message, binary_data, signature) ==
    LET total_message_size == U32(Len(json_message) + Len(binary_data) + Len(signature))
    IN  to_be_bytes(total_message_size) \o to_be_bytes(U32(Len(json_message)))
            \o json_message \o signature \o binary_data

Failed(status) == [NoRaw EXCEPT !.status = status]

(* read_message_raw on a stream that holds w and then ends (eof) or stays  *)
(* open: read_exact fails on a stream that ends early and waits on one     *)
(* that stays open. total - json is a u32 subtraction: with overflow       *)
(* checks (debug builds) it panics when json_length is the larger, without *)
(* them (release builds) it wraps.                                         *)
read_message_raw(w, eof, overflow_checks) ==
    LET short == Failed(IF eof THEN "Err" ELSE "blocked")
    IN  IF Len(w) < 8 THEN short
        ELSE
          LET message_length == from_be_bytes(SubSeq(w, 1, 4))
              json_length == from_be_bytes(SubSeq(w, 5, 8))
              data_length == wrapping_sub(message_length, json_length)
          IN  IF ~AtMost(json_length, Len(w) - 8) THEN short
              ELSE IF GreaterU32(json_length, message_length) /\ overflow_checks
                   THEN Failed("panic")
              ELSE IF ~AtMost(data_length, Len(w) - 8 - json_length.lo) THEN short
              ELSE [status |-> "Ok",
                    message_length |-> message_length,
                    json_length |-> json_length,
                    json_message |-> from_utf8_lossy(SubSeq(w, 9, 8 + json_length.lo)),
                    data |-> SubSeq(w, 9 + json_length.lo,
                                    8 + json_length.lo + data_length.lo)]

(* &data[(offset as usize)..] of process_fragment_result, offset <= len    *)
SliceFrom(data, offset) == SubSeq(data, offset + 1, Len(data))

(* FragmentTask::perform: the result header and nx*ny pixels of 8 bytes    *)
perform(nx, ny, byte) ==
    [resolution |-> [nx |-> nx, ny |-> ny],
     offset |-> SignatureLen,
     data |-> [i \in 1..(nx * ny * 8) |-> byte]]

MessageInputs ==
    { [NoInput EXCEPT !.kind = "message", !.json = j, !.data = b, !.has_data = h] :
        j \in SeqsUpTo(JsonBytes, MaxJson), b \in SeqsUpTo(DataBytes, MaxData), h \in BOOLEAN }
    \ { [NoInput EXCEPT !.kind = "message", !.json = j, !.data = b, !.has_data = FALSE] :
        j \in SeqsUpTo(JsonBytes, MaxJson), b \in SeqsUpTo(DataBytes, MaxData) \ {<<>>} }

(* what a worker sends back: the signature it read with the task and the   *)
(* pixels of perform                                                       *)
ResultInputs ==
    { [NoInput EXCEPT !.kind = "result", !.json = j, !.has_data = TRUE,
                      !.data = perform(nx, ny, v).data,
                      !.signature = Signature,
                      !.resolution = perform(nx, ny, v).resolution,
                      !.offset = perform(nx, ny, v).offset] :
        j \in SeqsUpTo({123, 125}, MaxJson), nx \in 1..MaxData, ny \in 1..MaxData, v \in DataBytes }

(* a frame of a peer's own making: any two lengths, json_length bytes of   *)
(* text, any payload, and the stream closed or left open behind it         *)
PeerInputs ==
    { [NoInput EXCEPT !.kind = "peer", !.message_length = t, !.json_length = l,
                      !.json = [i \in 1..l |-> 123], !.data = b, !.has_data = TRUE,
                      !.eof = e] :
        t \in 0..MaxJson, l \in 0..(MaxJson + 1), b \in SeqsUpTo(DataBytes, MaxData), e \in BOOLEAN }

CodecInit ==
    /\ cpc = "ready"
    /\ cin \in MessageInputs \cup ResultInputs \cup PeerInputs
    /\ wire = <<>>
    /\ raw = NoRaw
    /\ WorkerOff
    /\ HaltOff
    /\ RenderOff

SendMessage ==
    /\ cpc = "ready"
    /\ cin.kind = "message"
    /\ wire' = send_message(cin.json, cin.has_data, cin.data)
    /\ cpc' = "written"
    /\ UNCHANGED <<serverVars, fnVars, workerVars, haltVars, renderVars, cin, raw>>

(* worker: send_fragment_result -> send_result                             *)
SendResult ==
    /\ cpc = "ready"
    /\ cin.kind = "result"
    /\ wire' = send_result(cin.json, cin.data, cin.signature)
    /\ cpc' = "written"
    /\ UNCHANGED <<serverVars, fnVars, workerVars, haltVars, renderVars, cin, raw>>

PeerWrite ==
    /\ cpc = "ready"
    /\ cin.kind = "peer"
    /\ wire' = to_be_bytes(U32(cin.message_length)) \o to_be_bytes(U32(cin.json_length))
                  \o cin.json \o cin.data
    /\ cpc' = "written"
    /\ UNCHANGED <<serverVars, fnVars, workerVars, haltVars, renderVars, cin, raw>>

(* handle_connection: read_message_raw(&mut socket).await                  *)
ReadRaw(overflow_checks) ==
    /\ cpc = "written"
    /\ raw' = read_message_raw(wire, cin.eof, overflow_checks)
    /\ cpc' = "read"
    /\ UNCHANGED <<serverVars, fnVars, workerVars, haltVars, renderVars, cin, wire>>

CodecNext ==
    \/ SendMessage
    \/ SendResult
    \/ PeerWrite
    \/ \E overflow_checks \in BOOLEAN : ReadRaw(overflow_checks)

(* the server at rest: no connection is made while the codec is exercised  *)
CodecSpecInit ==
    /\ ServerInit
    /\ engine = "off"
    /\ CodecInit
    /\ FnOff

CodecSpec == CodecSpecInit /\ [][CodecNext]_vars

(* C12: read_message_raw, given a frame whose json_length exceeds its      *)
(* message_length, returns an error.                                       *)
C12_OverlongJsonLengthIsAnError ==
    (cpc = "read" /\ cin.kind = "peer" /\ cin.json_length > cin.message_length) =>
        raw.status = "Err"

(* C15: for every header j that is valid UTF-8 and every payload b (or     *)
(* none), read_message_raw of what send_message(j, b) wrote returns        *)
(* message_length = |j| + |b|, json_length = |j|, the text j and the       *)
(* payload b, byte for byte.                                               *)
C15_SendReadRoundTrip ==
    (cpc = "read" /\ cin.kind = "message" /\ ValidUtf8(cin.json)) =>
        raw = [status |-> "Ok",
               message_length |-> U32(Len(cin.json) + (IF cin.has_data THEN Len(cin.data) ELSE 0)),
               json_length |-> U32(Len(cin.json)),
               json_message |-> cin.json,
               data |-> IF cin.has_data THEN cin.data ELSE <<>>]

C15_Witness ==
    /\ cpc = "read"
    /\ cin.kind = "message"
    /\ cin.json = <<123, 125>>
    /\ cin.data = <<0, 255>>
    /\ raw.status = "Ok"
    /\ raw.json_message = <<123, 125>>
    /\ raw.data = <<0, 255>>

(* C16: the frame send_result writes for a result reads back as a frame of *)
(* the codec: message_length = |json| + 16 + |pixels|, json_length =       *)
(* |json|, data = signature followed by the pixels; and the data without   *)
(* its first pixels.offset = 16 bytes is the nx*ny*8 pixel bytes.          *)
C16_ResultFrameIsValid ==
    (cpc = "read" /\ cin.kind = "result") =>
        /\ raw.status = "Ok"
        /\ raw.message_length = U32(Len(cin.json) + SignatureLen + Len(cin.data))
        /\ raw.json_length = U32(Len(cin.json))
        /\ raw.json_message = cin.json
        /\ raw.data = cin.signature \o cin.data
        /\ Len(cin.signature) = SignatureLen
        /\ cin.offset = SignatureLen
        /\ SliceFrom(raw.data, cin.offset) = cin.data
        /\ Len(SliceFrom(raw.data, cin.offset)) = cin.resolution.nx * cin.resolution.ny * 8

C16_Witness ==
    /\ cpc = "read"
    /\ cin.kind = "result"
    /\ cin.resolution = [nx |-> 1, ny |-> 2]
    /\ raw.status = "Ok"
    /\ Len(raw.data) = SignatureLen + 16
    /\ raw.data[SignatureLen + 1] = 255

(* ======================================================================= *)
(* The worker: run_worker's loop around run. The server end of each        *)
(* connection is a handle_connection task: it reads one message, answers   *)
(* a request with a task or with nothing, and returns.                     *)
(* ======================================================================= *)
WorkerConns == 1..MaxWorkerConns

WorkerInit ==
    /\ wpc = "connect"
    /\ outer = 0
    /\ inner = 0
    /\ opened = 0
    /\ written = [k \in WorkerConns |-> 0]
    /\ served = {}

(* run: connect_to_server(&server_addr).await?                             *)
connect_to_server(ok) ==
    /\ wpc = "connect"
    /\ ok => opened < MaxWorkerConns
    /\ opened' = IF ok THEN opened + 1 ELSE opened
    /\ outer' = IF ok THEN opened + 1 ELSE 0
    /\ wpc' = IF ok THEN "send_request" ELSE "failed"
    /\ UNCHANGED <<serverVars, fnVars, codecVars, haltVars, renderVars, inner, written, served>>

(* send_fragment_request(&mut stream, ..) on the stream run opened first,  *)
(* in every turn of the inner loop; a write on a stream whose peer has     *)
(* returned succeeds or fails                                              *)
send_fragment_request(ok) ==
    /\ wpc = "send_request"
    /\ written' = IF ok THEN [written EXCEPT ![outer] = @ + 1] ELSE written
    /\ wpc' = IF ok THEN "read_task" ELSE "failed"
    /\ UNCHANGED <<serverVars, fnVars, codecVars, haltVars, renderVars, outer, inner, opened, served>>

(* read_fragment_task(&mut stream): the handler at the other end answers   *)
(* its one message with a task (ok) or with nothing and returns; a stream  *)
(* whose handler has returned already yields no task                       *)
read_fragment_task(ok) ==
    /\ wpc = "read_task"
    /\ ok => outer \notin served
    /\ served' = served \cup {outer}
    /\ wpc' = IF ok THEN "perform" ELSE "failed"
    /\ UNCHANGED <<serverVars, fnVars, codecVars, haltVars, renderVars, outer, inner, opened, written>>

perform_task(ok) ==
    /\ wpc = "perform"
    /\ wpc' = IF ok THEN "connect_result" ELSE "failed"
    /\ UNCHANGED <<serverVars, fnVars, codecVars, haltVars, renderVars, outer, inner, opened, written, served>>

(* let mut stream = connect_to_server(&server_addr).await?  (the result's) *)
connect_for_result(ok) ==
    /\ wpc = "connect_result"
    /\ ok => opened < MaxWorkerConns
    /\ opened' = IF ok THEN opened + 1 ELSE opened
    /\ inner' = IF ok THEN opened + 1 ELSE 0
    /\ wpc' = IF ok THEN "send_result" ELSE "failed"
    /\ UNCHANGED <<serverVars, fnVars, codecVars, haltVars, renderVars, outer, written, served>>

send_fragment_result(ok) ==
    /\ wpc = "send_result"
    /\ written' = IF ok THEN [written EXCEPT ![inner] = @ + 1] ELSE written
    /\ served' = IF ok THEN served \cup {inner} ELSE served
    /\ wpc' = IF ok THEN "shutdown" ELSE "failed"
    /\ UNCHANGED <<serverVars, fnVars, codecVars, haltVars, renderVars, outer, inner, opened>>

(* stream.shutdown().await?, then the next turn of the inner loop          *)
shutdown(ok) ==
    /\ wpc = "shutdown"
    /\ inner' = 0
    /\ wpc' = IF ok THEN "send_request" ELSE "failed"
    /\ UNCHANGED <<serverVars, fnVars, codecVars, haltVars, renderVars, outer, opened, written, served>>

(* run_worker: the Err of run is logged and the loop calls run again       *)
run_again ==
    /\ wpc = "failed"
    /\ wpc' = "connect"
    /\ outer' = 0
    /\ inner' = 0
    /\ UNCHANGED <<serverVars, fnVars, codecVars, haltVars, renderVars, opened, written, served>>

WorkerNext ==
    \/ \E ok \in BOOLEAN : connect_to_server(ok)
    \/ \E ok \in BOOLEAN : send_fragment_request(ok)
    \/ \E ok \in BOOLEAN : read_fragment_task(ok)
    \/ \E ok \in BOOLEAN : perform_task(ok)
    \/ \E ok \in BOOLEAN : connect_for_result(ok)
    \/ \E ok \in BOOLEAN : send_fragment_result(ok)
    \/ \E ok \in BOOLEAN : shutdown(ok)
    \/ run_again

WorkerSpecInit ==
    /\ ServerInit
    /\ engine = "off"
    /\ CodecOff
    /\ HaltOff
    /\ RenderOff
    /\ WorkerInit
    /\ FnOff

WorkerSpec == WorkerSpecInit /\ [][WorkerNext]_vars

(* C17: no connection carries more than one message written by the worker. *)
C17_OneMessagePerWorkerConnection ==
    \A k \in WorkerConns : written[k] <= 1

(* C18: when a step of the loop has failed, the worker's next step is a    *)
(* back-off, and only then does the loop start again from connect.         *)
C18_BackOffBeforeRetry ==
    [][(wpc = "failed" /\ wpc' # "failed") => wpc' = "back_off"]_vars

(* ======================================================================= *)
(* Shutdown: run_wrapper spawns execute_server, spins on the running flag  *)
(* and returns when ctrl-C has cleared it; with the return of main the     *)
(* runtime and every task on it are gone. No task reads the flag.          *)
(* ======================================================================= *)
(* the ctrlc handler: r.store(false, Ordering::SeqCst)                     *)
CtrlC ==
    /\ running
    /\ ~exited
    /\ running' = FALSE
    /\ UNCHANGED <<serverVars, fnVars, codecVars, workerVars, renderVars, exited>>

(* while running.load(..) {} ends; run_wrapper and main return             *)
MainReturns ==
    /\ ~running
    /\ ~exited
    /\ exited' = TRUE
    /\ UNCHANGED <<serverVars, fnVars, codecVars, workerVars, renderVars, running>>

(* the accept loop and request handlers, for as long as the process lives  *)
HaltNext ==
    \/ \E c \in Conns, a \in Addrs : ~exited /\ Accept(c, a)
    \/ \E c \in Conns, m \in RequestMessages \cup UnknownMessages : ~exited /\ ReadMessage(c, m)
    \/ \E c \in Conns : ~exited /\ ReadFail(c)
    \/ \E c \in Conns : ~exited /\ Classify(c)
    \/ \E c \in Conns : ~exited /\ ReqRegister(c)
    \/ \E c \in Conns : ~exited /\ ReqTakeTask(c)
    \/ \E c \in Conns, ok \in BOOLEAN : ~exited /\ ReqSend(c, ok)
    \/ \E c \in Conns : ~exited /\ Close(c)
    \/ CtrlC
    \/ MainReturns

HaltSpec == Init /\ [][HaltNext]_vars

(* C19: once the running flag is false no connection is accepted.          *)
C19_NoAcceptAfterCtrlC ==
    [][~running => \A c \in Conns : ~(pc[c] = "idle" /\ pc'[c] = "accepted")]_vars

(* ======================================================================= *)
(* GraphicsWorld::render for one RenderingData: start_point, then          *)
(* draw_pixel for every pixel of the tile, row by row                      *)
(* ======================================================================= *)
MaxKeys == 3

ViewKeys == {"Right", "Left", "Down", "Up", "P", "M"}

ServerAt(r) ==
    [range |-> r, tiles |-> <<>>, tasks_queue |-> <<>>, current_fractal |-> 0,
     workers |-> [a \in Addrs |-> None]]

(* the viewports n key presses can lead to                                 *)
RECURSIVE ViewsAfter(_)
ViewsAfter(n) ==
    IF n = 0 THEN {InitialRange}
    ELSE LET V == ViewsAfter(n - 1)
         IN  V \cup {KeyServer(ServerAt(r), key).range : r \in V, key \in ViewKeys}

Views == ViewsAfter(MaxKeys)

FrameBufferLen == Width * Height * 4

(* a start_point that puts every tile at the origin of the canvas          *)
start_point_Origin(range, view) == [x |-> 0, y |-> 0]

(* start_point: the f64 quotient cast with `as u32`, which truncates and   *)
(* turns a negative value into 0                                           *)
start_point(range, view) ==
    LET x == (range.minx - view.minx) * Width
        y == (range.miny - view.miny) * Height
    IN  [x |-> IF x < 0 THEN 0 ELSE x \div (view.maxx - view.minx),
         y |-> IF y < 0 THEN 0 ELSE y \div (view.maxy - view.miny)]

(* draw_pixel: the index it computes; it writes when index + 3 is inside   *)
(* the buffer and panics otherwise                                         *)
PixelIndex(x, y) == (y * Width + x) * 4

InBuffer(index) == index + 3 < FrameBufferLen

RenderInit ==
    /\ rpc = "ready"
    /\ rview \in Views
    /\ \E v \in {InitialRange, rview}, k \in 1..(Tiles * Tiles) :
          rtile = [range |-> generate_tiles(v)[k],
                   resolution |-> FragmentTask(generate_tiles(v)[k], 0, v).resolution]
    /\ rwritten = {}

(* render: for y in 0..ny, for x in 0..nx: draw_pixel(start_x + x,         *)
(* start_y + y); the pass ends at the first pixel draw_pixel panics on     *)
RenderTile ==
    /\ rpc = "ready"
    /\ LET start == start_point(rtile.range, rview)
           nx == rtile.resolution.nx
           ny == rtile.resolution.ny
           Order(x, y) == y * nx + x
           Pixels == (0..(nx - 1)) \X (0..(ny - 1))
           Index(p) == PixelIndex(start.x + p[1], start.y + p[2])
           Faults == {p \in Pixels : ~InBuffer(Index(p))}
           Before(p) == \A q \in Faults : Order(p[1], p[2]) < Order(q[1], q[2])
       IN  /\ rwritten' = {[x |-> p[1], y |-> p[2], index |-> Index(p)] :
                              p \in {q \in Pixels : Before(q)}}
           /\ rpc' = IF Faults = {} THEN "done" ELSE "panic"
    /\ UNCHANGED <<serverVars, fnVars, codecVars, workerVars, haltVars, rview, rtile>>

RenderNext == RenderTile

RenderSpecInit ==
    /\ ServerInit
    /\ engine = "off"
    /\ CodecOff
    /\ WorkerOff
    /\ HaltOff
    /\ RenderInit
    /\ FnOff

RenderSpec == RenderSpecInit /\ [][RenderNext]_vars

(* C20: the render pass does not fault, and a tile pixel is written only   *)
(* when its canvas position (start_x + x, start_y + y) is inside           *)
(* [0, width) x [0, height), and then at that row and column.              *)
C20_RenderStaysInsideCanvas ==
    /\ rpc # "panic"
    /\ \A p \in rwritten :
          LET start == start_point(rtile.range, rview)
          IN  /\ start.x + p.x < Width
              /\ start.y + p.y < Height
              /\ p.index = ((start.y + p.y) * Width + (start.x + p.x)) * 4


(* ======================================================================= *)
(* Blitting: GraphicsWorld::render applied to RenderingData one after the  *)
(* other, with the viewport and the palette fixed                          *)
(* ======================================================================= *)
MaxBlits == 2

(* t is counted in quarters: t = k / Quarter for k in 0..Quarter           *)
Quarter == 4

(* `as u8` of a non-negative value: truncated, and 255 when it is larger   *)
as_u8(n) == IF n > 255 THEN 255 ELSE n

classic_palette(k) ==
    [r |-> as_u8((9 * (Quarter - k) * k * k * k * 255) \div 256),
     g |-> as_u8((15 * (Quarter - k) * (Quarter - k) * k * k * 255) \div 256),
     b |-> as_u8((17 * (Quarter - k) * (Quarter - k) * (Quarter - k) * k * 255) \div 512)]

inverted_palette(k) ==
    [r |-> 255 - classic_palette(k).r,
     g |-> 255 - classic_palette(k).g,
     b |-> 255 - classic_palette(k).b]

grayscale_palette(k) ==
    [r |-> as_u8((k * 255) \div Quarter),
     g |-> as_u8((k * 255) \div Quarter),
     b |-> as_u8((k * 255) \div Quarter)]

calculate_color(p, k) ==
    CASE p = "Classic"   -> classic_palette(k)
      [] p = "Inverted"  -> inverted_palette(k)
      [] p = "Grayscale" -> grayscale_palette(k)

Palettes == {"Classic", "Inverted", "Grayscale"}

(* draw_pixel: four bytes at index when index + 3 is inside the buffer,    *)
(* a panic otherwise                                                       *)
draw_pixel(fb, x, y, p, k) ==
    LET index == PixelIndex(x, y)
        c == calculate_color(p, k)
    IN  IF index + 3 < Len(fb)
        THEN [frame_buffer |->
                 [i \in 1..Len(fb) |->
                     CASE i = index + 1 -> c.r
                       [] i = index + 2 -> c.g
                       [] i = index + 3 -> c.b
                       [] i = index + 4 -> 255
                       [] OTHER -> fb[i]],
              panic |-> FALSE]
        ELSE [frame_buffer |-> fb, panic |-> TRUE]

(* the loops of render from pixel number n on: y outside, x inside; the    *)
(* intensity is read at x + y * ny, and reading behind the vector panics   *)
RECURSIVE render_from(_, _, _, _, _)
render_from(fb, data, start, p, n) ==
    LET nx == data.resolution.nx
        ny == data.resolution.ny
        x == n % nx
        y == n \div nx
        at == x + y * ny
    IN  IF n >= nx * ny THEN [frame_buffer |-> fb, panic |-> FALSE]
        ELSE IF at >= Len(data.iterations) THEN [frame_buffer |-> fb, panic |-> TRUE]
        ELSE LET drawn == draw_pixel(fb, start.x + x, start.y + y, p, data.iterations[at + 1])
             IN  IF drawn.panic THEN drawn
                 ELSE render_from(drawn.frame_buffer, data, start, p, n + 1)

render(fb, data, view, p) ==
    render_from(fb, data, start_point(data.range, view), p, 0)

Blank == [i \in 1..FrameBufferLen |-> 0]

(* the intensities a worker may return for a tile of n pixels              *)
Intensities(n) ==
    {[i \in 1..n |-> 1], [i \in 1..n |-> (i - 1) % (Quarter + 1)]}

(* the results of the tiles of the partition of viewport u                 *)
ResultOf(u, k, it) ==
    [range |-> generate_tiles(u)[k],
     resolution |-> FragmentTask(generate_tiles(u)[k], 0, u).resolution,
     iterations |-> it,
     dispatched |-> u]

ResultsOf(u) ==
    UNION {{ResultOf(u, k, it) :
               it \in Intensities(FragmentTask(generate_tiles(u)[k], 0, u).resolution.nx
                                  * FragmentTask(generate_tiles(u)[k], 0, u).resolution.ny)} :
           k \in 1..(Tiles * Tiles)}

(* the viewport is the initial one or up to two key presses away from it   *)
BlitViews == ViewsAfter(2)

BlitInit ==
    /\ bpc = "ready"
    /\ \E v \in BlitViews, p \in Palettes :
          \E u \in {v, InitialRange} : \E d1 \in ResultsOf(u), d2 \in ResultsOf(u) :
             bin = [view |-> v, palette |-> p, data |-> <<d1, d2>>]
    /\ frame_buffer = Blank
    /\ blits = <<>>

(* one redraw with RenderingData i in a shard                              *)
Blit(i) ==
    /\ bpc = "ready"
    /\ Len(blits) < MaxBlits
    /\ LET drawn == render(frame_buffer, bin.data[i], bin.view, bin.palette)
       IN  /\ frame_buffer' = drawn.frame_buffer
           /\ bpc' = IF drawn.panic THEN "panic" ELSE "ready"
    /\ blits' = Append(blits, i)
    /\ UNCHANGED <<serverVars, codecVars, workerVars, haltVars, renderVars, blitFrame, bin>>

BlitNext == \E i \in 1..2 : Blit(i)

BlitSpecInit ==
    /\ ServerInit
    /\ engine = "off"
    /\ portal = "off"
    /\ created = <<>>
    /\ CodecOff
    /\ WorkerOff
    /\ HaltOff
    /\ RenderOff
    /\ BlitInit
    /\ LoopOff
    /\ PlanOff
    /\ PanOff
    /\ SceneOff
    /\ CycleOff
    /\ JsonOff
    /\ CountOff
    /\ DispatchOff
    /\ RegistryOff
    /\ InboxOff
    /\ TileOff
    /\ AcceptOff

BlitSpec == BlitSpecInit /\ [][BlitNext]_vars

(* the two RenderingData are different tiles of one partition              *)
TilesOfOnePartition ==
    /\ bin.data[1].dispatched = bin.data[2].dispatched
    /\ bin.data[1].range # bin.data[2].range

(* C21: with viewport and palette fixed, blitting the RenderingData that   *)
(* was blitted last once more leaves the frame buffer as it is, and after  *)
(* two different tiles of one partition were blitted the frame buffer is   *)
(* the one that blitting them in the other order gives.                    *)
C21_BlitIdempotentAndOrderIndependent ==
    /\ [][(blits # <<>> /\ blits' = Append(blits, blits[Len(blits)]) /\ bpc' = "ready")
             => frame_buffer' = frame_buffer]_vars
    /\ []((bpc = "ready" /\ Len(blits) = 2 /\ blits[1] # blits[2] /\ TilesOfOnePartition)
             => frame_buffer
                  = render(render(Blank, bin.data[blits[2]], bin.view, bin.palette).frame_buffer,
                           bin.data[blits[1]], bin.view, bin.palette).frame_buffer)


(* ======================================================================= *)
(* Two workers looping: run of the worker against process_fragment_request *)
(* and process_fragment_result, the consumer task and the redraw of the    *)
(* engine; the viewport is never changed                                   *)
(* ======================================================================= *)
NumLoops == 2

Loops == 1..NumLoops

(* the capacity the three channels are created with                        *)
ChannelSize == 32

EndpointOf(w) == ((w - 1) % NumAddrs) + 1

NameOf(w) == IF w = 1 THEN "w1" ELSE "w2"

(* the FragmentResult and the intensities of a performed task: range and   *)
(* resolution of the task, one intensity a pixel                           *)
ResultOfTask(t) ==
    [range |-> t.range,
     resolution |-> t.resolution,
     iterations |-> [i \in 1..(t.resolution.nx * t.resolution.ny) |-> 1 + (i % (Quarter - 1))]]

LoopInit ==
    /\ loops = [w \in Loops |-> [pc |-> "start", task |-> NoTask]]
    /\ pool = regenerate_tiles(ServerAt(InitialRange))
    /\ handed = <<>>
    /\ results = {}
    /\ render_q = <<>>
    /\ portal_q = 0
    /\ shard_q = [i \in 1..ShardCount |-> NoData]
    /\ canvas = Blank
    /\ redrawn = 0
    /\ epc = "running"

(* run_worker calls run: connect_to_server, then send_fragment_request.     *)
(* After a result was sent the next turn of the loop of run writes its     *)
(* request to the first stream, whose handler has returned; like a request *)
(* that got no task it ends in read_fragment_task failing, run returns     *)
(* the error and run_worker calls run again.                               *)
LoopRequest(w) ==
    /\ loops[w].pc \in {"start", "stale", "no_task"}
    /\ loops' = [loops EXCEPT ![w].pc = "requested"]
    /\ UNCHANGED <<serverVars, codecVars, workerVars, haltVars, renderVars, loopFrame,
                   pool, handed, results, render_q, portal_q, shard_q, canvas, redrawn, epc>>

(* process_fragment_request: under the lock register_worker, then          *)
(* dequeue_task or else create_fragment_task; the task is sent, and        *)
(* without a task nothing is sent and the handler returns                  *)
ServeRequest(w) ==
    /\ loops[w].pc = "requested"
    /\ LET registered_ == register_worker(pool, EndpointOf(w), NameOf(w))
           queued == dequeue_task(registered_)
           out == IF queued.task # NoTask THEN queued ELSE create_fragment_task(queued.server)
       IN  /\ pool' = out.server
           /\ loops' = [loops EXCEPT ![w] =
                           IF out.task = NoTask THEN [pc |-> "no_task", task |-> NoTask]
                           ELSE [pc |-> "has_task", task |-> out.task]]
           /\ handed' = IF out.task = NoTask THEN handed
                        ELSE Append(handed, out.task)
    /\ UNCHANGED <<serverVars, codecVars, workerVars, haltVars, renderVars, loopFrame,
                   results, render_q, portal_q, shard_q, canvas, redrawn, epc>>

(* run: read_fragment_task, perform_task, a second connect_to_server,      *)
(* send_fragment_result and shutdown                                       *)
LoopResult(w) ==
    /\ loops[w].pc = "has_task"
    /\ results' = results \cup {ResultOfTask(loops[w].task)}
    /\ loops' = [loops EXCEPT ![w] = [pc |-> "stale", task |-> NoTask]]
    /\ UNCHANGED <<serverVars, codecVars, workerVars, haltVars, renderVars, loopFrame,
                   pool, handed, render_q, portal_q, shard_q, canvas, redrawn, epc>>

(* process_fragment_result: the RenderingData goes to the portal channel   *)
(* and then to the render channel; a full channel makes the handler wait   *)
ServeResult(d) ==
    /\ d \in results
    /\ portal_q < ChannelSize
    /\ Len(render_q) < ChannelSize
    /\ results' = results \ {d}
    /\ portal_q' = portal_q + 1
    /\ render_q' = Append(render_q, d)
    /\ UNCHANGED <<serverVars, codecVars, workerVars, haltVars, renderVars, loopFrame,
                   loops, pool, handed, shard_q, canvas, redrawn, epc>>

(* the consumer task: recv, then the first shard that is None              *)
LoopConsume ==
    /\ epc = "running"
    /\ render_q # <<>>
    /\ render_q' = Tail(render_q)
    /\ shard_q' = IF FirstEmpty(shard_q) = 0 THEN shard_q
                  ELSE [shard_q EXCEPT ![FirstEmpty(shard_q)] = Head(render_q)]
    /\ UNCHANGED <<serverVars, codecVars, workerVars, haltVars, renderVars, loopFrame,
                   loops, pool, handed, results, portal_q, canvas, redrawn, epc>>

(* render over the shards from shard i on: each occupied shard is taken    *)
(* and redrawn                                                               *)
RECURSIVE render_shards(_, _, _, _, _)
render_shards(fb, sh, view, p, i) ==
    IF i > Len(sh) THEN [frame_buffer |-> fb, panic |-> FALSE]
    ELSE IF sh[i] = NoData THEN render_shards(fb, sh, view, p, i + 1)
    ELSE LET one == render(fb, sh[i], view, p)
         IN  IF one.panic THEN one
             ELSE render_shards(one.frame_buffer, sh, view, p, i + 1)

(* RedrawRequested: graphics_world.render                                  *)
LoopRedraw ==
    /\ epc = "running"
    /\ \E i \in 1..ShardCount : shard_q[i] # NoData
    /\ LET out == render_shards(canvas, shard_q, pool.range, "Classic", 1)
       IN  /\ canvas' = out.frame_buffer
           /\ epc' = IF out.panic THEN "panic" ELSE "running"
    /\ redrawn' = redrawn + Cardinality({i \in 1..ShardCount : shard_q[i] # NoData})
    /\ shard_q' = [i \in 1..ShardCount |-> NoData]
    /\ UNCHANGED <<serverVars, codecVars, workerVars, haltVars, renderVars, loopFrame,
                   loops, pool, handed, results, render_q, portal_q>>

LoopNext ==
    \/ \E w \in Loops : LoopRequest(w)
    \/ \E w \in Loops : ServeRequest(w)
    \/ \E w \in Loops : LoopResult(w)
    \/ \E d \in results : ServeResult(d)
    \/ LoopConsume
    \/ LoopRedraw

LoopSpecInit ==
    /\ ServerInit
    /\ engine = "off"
    /\ portal = "off"
    /\ created = <<>>
    /\ CodecOff
    /\ WorkerOff
    /\ HaltOff
    /\ RenderOff
    /\ BlitOff
    /\ LoopInit
    /\ PlanOff
    /\ PanOff
    /\ SceneOff
    /\ CycleOff
    /\ JsonOff
    /\ CountOff
    /\ DispatchOff
    /\ RegistryOff
    /\ InboxOff
    /\ TileOff
    /\ AcceptOff

LoopSpec == LoopSpecInit /\ [][LoopNext]_vars

(* the pixel at column x and row y of the canvas has been written          *)
Written(x, y) == canvas[PixelIndex(x, y) + 4] = 255

PlanInputs ==
    {[w |-> w, h |-> h, t |-> t, view |-> v] :
        w \in 1..(Width + 1), h \in 1..(Height + 1), t \in 1..(Tiles + 1), v \in Views}

PlanInit ==
    /\ plan_pc = "ready"
    /\ plan_in \in PlanInputs
    /\ plan = <<>>

Replan ==
    /\ plan_pc = "ready"
    /\ plan' = [k \in 1..(plan_in.t * plan_in.t) |->
                  [range |-> partition(plan_in.view, plan_in.t)[k],
                   resolution |-> tile_resolution(partition(plan_in.view, plan_in.t)[k],
                                                  plan_in.view, plan_in.w, plan_in.h, plan_in.t)]]
    /\ plan_pc' = "done"
    /\ UNCHANGED <<serverVars, codecVars, workerVars, haltVars, renderVars, planFrame, plan_in>>

PlanNext == Replan

PlanSpecInit ==
    /\ ServerInit
    /\ engine = "off"
    /\ portal = "off"
    /\ created = <<>>
    /\ CodecOff
    /\ WorkerOff
    /\ HaltOff
    /\ RenderOff
    /\ BlitOff
    /\ LoopOff
    /\ PlanInit
    /\ PanOff
    /\ SceneOff
    /\ CycleOff
    /\ JsonOff
    /\ CountOff
    /\ DispatchOff
    /\ RegistryOff
    /\ InboxOff
    /\ TileOff
    /\ AcceptOff

PlanSpec == PlanSpecInit /\ [][PlanNext]_vars

Area(r) == (r.maxx - r.minx) * (r.maxy - r.miny)

Inside(a, r) ==
    /\ r.minx <= a.minx /\ a.minx <= a.maxx /\ a.maxx <= r.maxx
    /\ r.miny <= a.miny /\ a.miny <= a.maxy /\ a.maxy <= r.maxy

Apart(a, b) ==
    \/ a.maxx <= b.minx
    \/ b.maxx <= a.minx
    \/ a.maxy <= b.miny
    \/ b.maxy <= a.miny

RECURSIVE SumOver(_, _, _)
SumOver(q, F(_), n) == IF n = 0 THEN 0 ELSE F(q[n]) + SumOver(q, F, n - 1)

Pixels(tile) == tile.resolution.nx * tile.resolution.ny

RangeArea(tile) == Area(tile.range)

Precision == 8

FracBits == 12

MaxPans == 2

One == 2 ^ FracBits

Abs(n) == IF n < 0 THEN 0 - n ELSE n

(* the exponent of the leading bit of v, 0 for v < 2                       *)
RECURSIVE Log2(_)
Log2(v) == IF v < 2 THEN 0 ELSE 1 + Log2(v \div 2)

(* num / den rounded to the nearest float                                  *)
round_ratio(num, den) ==
    LET mag == Abs(num)
        e == Log2(mag \div den)
        q == 2 ^ (IF e - Precision + 1 > 0 THEN e - Precision + 1 ELSE 0)
        k == mag \div (den * q)
        r == mag - k * den * q
        up == 2 * r > den * q \/ (2 * r = den * q /\ k % 2 = 1)
        m == (IF up THEN k + 1 ELSE k) * q
    IN  IF num < 0 THEN 0 - m ELSE m

f64_add(a, b) == round_ratio(a + b, 1)

f64_sub(a, b) == round_ratio(a - b, 1)

f64_mul(a, b) == round_ratio(a * b, One)

(* the literals 0.1, 0.9 and 1.1                                           *)
Tenth == round_ratio(One, 10)

ZoomIn == round_ratio(9 * One, 10)

ZoomOut == round_ratio(11 * One, 10)

Directions == {"right", "left", "down", "up"}

Inverse(d) ==
    CASE d = "right" -> "left"
      [] d = "left"  -> "right"
      [] d = "down"  -> "up"
      [] d = "up"    -> "down"

(* a move_left that shifts min only                                        *)
pan_MinOnly(r, d) ==
    LET w == f64_mul(f64_sub(r.maxx, r.minx), Tenth)
        h == f64_mul(f64_sub(r.maxy, r.miny), Tenth)
    IN  CASE d = "right" -> [r EXCEPT !.minx = f64_add(r.minx, w), !.maxx = f64_add(r.maxx, w)]
          [] d = "left"  -> [r EXCEPT !.minx = f64_sub(r.minx, w)]
          [] d = "down"  -> [r EXCEPT !.miny = f64_add(r.miny, h), !.maxy = f64_add(r.maxy, h)]
          [] d = "up"    -> [r EXCEPT !.miny = f64_sub(r.miny, h), !.maxy = f64_sub(r.maxy, h)]

(* a pan that shifts the viewport on both axes                             *)
pan_BothAxes(r, d) ==
    LET w == f64_mul(f64_sub(r.maxx, r.minx), Tenth)
        h == f64_mul(f64_sub(r.maxy, r.miny), Tenth)
    IN  IF d \in {"right", "down"}
        THEN [minx |-> f64_add(r.minx, w), maxx |-> f64_add(r.maxx, w),
              miny |-> f64_add(r.miny, h), maxy |-> f64_add(r.maxy, h)]
        ELSE [minx |-> f64_sub(r.minx, w), maxx |-> f64_sub(r.maxx, w),
              miny |-> f64_sub(r.miny, h), maxy |-> f64_sub(r.maxy, h)]

(* move_right, move_left, move_down, move_up: min and max are shifted by   *)
(* 10% of the extent on the axis                                           *)
pan(r, d) ==
    LET w == f64_mul(f64_sub(r.maxx, r.minx), Tenth)
        h == f64_mul(f64_sub(r.maxy, r.miny), Tenth)
    IN  CASE d = "right" -> [r EXCEPT !.minx = f64_add(r.minx, w), !.maxx = f64_add(r.maxx, w)]
          [] d = "left"  -> [r EXCEPT !.minx = f64_sub(r.minx, w), !.maxx = f64_sub(r.maxx, w)]
          [] d = "down"  -> [r EXCEPT !.miny = f64_add(r.miny, h), !.maxy = f64_add(r.maxy, h)]
          [] d = "up"    -> [r EXCEPT !.miny = f64_sub(r.miny, h), !.maxy = f64_sub(r.maxy, h)]

(* zoom: the half extents are scaled around the centre                     *)
zoom_f64(r, factor) ==
    LET cx == round_ratio(f64_add(r.minx, r.maxx), 2)
        cy == round_ratio(f64_add(r.miny, r.maxy), 2)
        hx == f64_mul(round_ratio(f64_sub(r.maxx, r.minx), 2), factor)
        hy == f64_mul(round_ratio(f64_sub(r.maxy, r.miny), 2), factor)
    IN  [minx |-> f64_sub(cx, hx), miny |-> f64_sub(cy, hy),
         maxx |-> f64_add(cx, hx), maxy |-> f64_add(cy, hy)]

(* the initial viewport (-2, -2)..(2, 2)                                   *)
InitialView == [minx |-> 0 - 2 * One, miny |-> 0 - 2 * One, maxx |-> 2 * One, maxy |-> 2 * One]

(* the viewports n key presses can lead to                                 *)
RECURSIVE PanViewsAfter(_)
PanViewsAfter(n) ==
    IF n = 0 THEN {InitialView}
    ELSE LET V == PanViewsAfter(n - 1)
         IN  V \cup {pan(r, d) : r \in V, d \in Directions}
               \cup {zoom_f64(r, f) : r \in V, f \in {ZoomIn, ZoomOut}}

PanInit ==
    /\ pan_pc = "ready"
    /\ pan_start \in PanViewsAfter(MaxKeys)
    /\ pan_view = pan_start
    /\ pan_log = <<>>

Pan(d) ==
    /\ pan_pc = "ready"
    /\ Len(pan_log) < MaxPans
    /\ pan_view' = pan(pan_view, d)
    /\ pan_log' = Append(pan_log, d)
    /\ UNCHANGED <<serverVars, codecVars, workerVars, haltVars, renderVars, panFrame,
                   pan_pc, pan_start>>

PanNext == \E d \in Directions : Pan(d)

PanSpecInit ==
    /\ ServerInit
    /\ engine = "off"
    /\ portal = "off"
    /\ created = <<>>
    /\ CodecOff
    /\ WorkerOff
    /\ HaltOff
    /\ RenderOff
    /\ BlitOff
    /\ LoopOff
    /\ PlanOff
    /\ PanInit
    /\ SceneOff
    /\ CycleOff
    /\ JsonOff
    /\ CountOff
    /\ DispatchOff
    /\ RegistryOff
    /\ InboxOff
    /\ TileOff
    /\ AcceptOff

PanSpec == PanSpecInit /\ [][PanNext]_vars

(* the last two pans were a pan and its inverse                            *)
PanAndBack ==
    /\ Len(pan_log) = 2
    /\ pan_log[2] = Inverse(pan_log[1])

(* a and b differ by at most 2^-(Precision - 2) of the extent; for the 53  *)
(* bits of f64 that is below the 1e-12 of the specification                *)
Near(a, b, extent) == Abs(a - b) * 2 ^ (Precision - 2) <= extent

MaxScene == 4

(* regenerate_tiles of a server with factor splits per axis                *)
regenerate_scene(s) ==
    [s EXCEPT !.tiles = partition(s.range, s.factor), !.tasks_queue = <<>>]

(* a move that leaves the tiles of the old viewport in place               *)
move_scene_NoRegenerate(s, d) ==
    LET w == (s.range.maxx - s.range.minx) \div 10
        h == (s.range.maxy - s.range.miny) \div 10
    IN  CASE d = "right" -> [s EXCEPT !.range = Shift(s.range, w, 0)]
          [] d = "left"  -> [s EXCEPT !.range = Shift(s.range, 0 - w, 0)]
          [] d = "down"  -> [s EXCEPT !.range = Shift(s.range, 0, h)]
          [] d = "up"    -> [s EXCEPT !.range = Shift(s.range, 0, 0 - h)]

(* move_right, move_left, move_down, move_up: the viewport is shifted by   *)
(* 10% of its extent and the tiles are regenerated                         *)
move_scene(s, d) ==
    LET w == (s.range.maxx - s.range.minx) \div 10
        h == (s.range.maxy - s.range.miny) \div 10
    IN  CASE d = "right" -> regenerate_scene([s EXCEPT !.range = Shift(s.range, w, 0)])
          [] d = "left"  -> regenerate_scene([s EXCEPT !.range = Shift(s.range, 0 - w, 0)])
          [] d = "down"  -> regenerate_scene([s EXCEPT !.range = Shift(s.range, 0, h)])
          [] d = "up"    -> regenerate_scene([s EXCEPT !.range = Shift(s.range, 0, 0 - h)])

(* create_fragment_task of a server with factor splits per axis            *)
create_scene_task(s) ==
    IF s.tiles = <<>>
    THEN [task |-> NoTask, server |-> s]
    ELSE [task |-> [range |-> Head(s.tiles), fractal |-> s.current_fractal,
                    max_iteration |-> MaxIteration,
                    resolution |-> tile_resolution(Head(s.tiles), s.range, Width, Height, s.factor),
                    id |-> [offset |-> 0, count |-> SignatureLen]],
          server |-> [s EXCEPT !.tiles = Tail(s.tiles)]]

SceneInit ==
    /\ scene_pc = "ready"
    /\ \E t \in 1..Tiles :
          scene = [range |-> InitialRange, tiles |-> partition(InitialRange, t),
                   tasks_queue |-> <<>>, current_fractal |-> 0, factor |-> t]
    /\ scene_log = <<>>
    /\ scene_task = NoTask

(* an arrow key of the window                                              *)
SceneKey(d) ==
    /\ scene_pc = "ready"
    /\ Len(scene_log) < MaxScene
    /\ scene' = move_scene(scene, d)
    /\ scene_log' = Append(scene_log, d)
    /\ UNCHANGED <<serverVars, codecVars, workerVars, haltVars, renderVars, sceneFrame,
                   scene_pc, scene_task>>

(* a FragmentRequest of a worker, under the lock                           *)
SceneRequest ==
    /\ scene_pc = "ready"
    /\ Len(scene_log) < MaxScene
    /\ LET d == dequeue_task(scene)
           r == IF d.task # NoTask THEN d ELSE create_scene_task(scene)
       IN  /\ scene' = r.server
           /\ scene_task' = r.task
    /\ scene_log' = Append(scene_log, "request")
    /\ UNCHANGED <<serverVars, codecVars, workerVars, haltVars, renderVars, sceneFrame, scene_pc>>

SceneNext ==
    \/ \E d \in Directions : SceneKey(d)
    \/ SceneRequest

SceneSpecInit ==
    /\ ServerInit
    /\ engine = "off"
    /\ portal = "off"
    /\ created = <<>>
    /\ CodecOff
    /\ WorkerOff
    /\ HaltOff
    /\ RenderOff
    /\ BlitOff
    /\ LoopOff
    /\ PlanOff
    /\ PanOff
    /\ SceneInit
    /\ CycleOff
    /\ JsonOff
    /\ CountOff
    /\ DispatchOff
    /\ RegistryOff
    /\ InboxOff
    /\ TileOff
    /\ AcceptOff

SceneSpec == SceneSpecInit /\ [][SceneNext]_vars

(* the viewport the scenario names, in hundredths                          *)
ViewportOfS2 == [minx |-> -120, miny |-> -200, maxx |-> 280, maxy |-> 200]

(* the viewport one move_right of 10% of the extent leads to               *)
ViewportAfterRight == [minx |-> -160, miny |-> -200, maxx |-> 240, maxy |-> 200]

MaxCycles == 4

CycleDirections == {"top", "left", "other"}

CycleInit ==
    /\ cyc_pc = "ready"
    /\ cyc = regenerate_tiles(ServerAt(InitialRange))
    /\ cyc_palette = "Classic"
    /\ cyc_log = <<>>

Logged(kind, s, p) == [kind |-> kind, fractal |-> s.current_fractal, palette |-> p]

(* key K                                                                   *)
CycleKeyK ==
    /\ cyc_pc = "ready"
    /\ Len(cyc_log) < MaxCycles
    /\ cyc' = cycle_fractal(cyc)
    /\ cyc_log' = Append(cyc_log, Logged("K", cyc', cyc_palette))
    /\ UNCHANGED <<serverVars, codecVars, workerVars, haltVars, renderVars, cycleFrame,
                   cyc_pc, cyc_palette>>

(* GET /fractal/cycle?direction=d: every arm of the match cycles           *)
CycleRoute(d) ==
    /\ cyc_pc = "ready"
    /\ Len(cyc_log) < MaxCycles
    /\ cyc' = CASE d = "top"  -> cycle_fractal(cyc)
                [] d = "left" -> cycle_fractal(cyc)
                [] OTHER      -> cycle_fractal(cyc)
    /\ cyc_log' = Append(cyc_log, Logged("route", cyc', cyc_palette))
    /\ UNCHANGED <<serverVars, codecVars, workerVars, haltVars, renderVars, cycleFrame,
                   cyc_pc, cyc_palette>>

(* key C: cycle_color_palette, which also regenerates the tiles            *)
CycleKeyC ==
    /\ cyc_pc = "ready"
    /\ Len(cyc_log) < MaxCycles
    /\ cyc_palette' = cycle_palette(cyc_palette)
    /\ cyc' = regenerate_tiles(cyc)
    /\ cyc_log' = Append(cyc_log, Logged("C", cyc', cyc_palette'))
    /\ UNCHANGED <<serverVars, codecVars, workerVars, haltVars, renderVars, cycleFrame, cyc_pc>>

(* a task handed out in between: it takes a tile and selects nothing       *)
CycleRequest ==
    /\ cyc_pc = "ready"
    /\ Len(cyc_log) < MaxCycles
    /\ cyc.tiles # <<>>
    /\ cyc' = create_fragment_task(cyc).server
    /\ cyc_log' = Append(cyc_log, Logged("request", cyc', cyc_palette))
    /\ UNCHANGED <<serverVars, codecVars, workerVars, haltVars, renderVars, cycleFrame,
                   cyc_pc, cyc_palette>>

CycleNext ==
    \/ CycleKeyK
    \/ \E d \in CycleDirections : CycleRoute(d)
    \/ CycleKeyC
    \/ CycleRequest

CycleSpecInit ==
    /\ ServerInit
    /\ engine = "off"
    /\ portal = "off"
    /\ created = <<>>
    /\ CodecOff
    /\ WorkerOff
    /\ HaltOff
    /\ RenderOff
    /\ BlitOff
    /\ LoopOff
    /\ PlanOff
    /\ PanOff
    /\ SceneOff
    /\ CycleInit
    /\ JsonOff
    /\ CountOff
    /\ DispatchOff
    /\ RegistryOff
    /\ InboxOff
    /\ TileOff
    /\ AcceptOff

CycleSpec == CycleSpecInit /\ [][CycleNext]_vars

(* the selections after the first i events                                 *)
FractalAt(i) == IF i = 0 THEN 0 ELSE cyc_log[i].fractal

PaletteAt(i) == IF i = 0 THEN "Classic" ELSE cyc_log[i].palette

(* the events that call cycle_fractal                                      *)
CycleKinds == {"K", "route"}

(* events i+1 .. i+n are all calls of cycle_fractal                        *)
Consecutive(i, n) ==
    /\ i + n <= Len(cyc_log)
    /\ \A j \in (i + 1)..(i + n) : cyc_log[j].kind \in CycleKinds

(* C26: current_fractal < |fractals| in every reachable state; a           *)
(* cycle_fractal advances the index by one modulo |fractals| and nothing   *)
(* else changes it; after |fractals| consecutive cycle_fractal calls the   *)
(* selection is the one they started from, and after fewer it is not.      *)
C26_CurrentFractalCyclesModulo ==
    /\ cyc_pc = "ready" =>
          /\ cyc.current_fractal \in 0..(NumFractals - 1)
          /\ cyc.current_fractal = FractalAt(Len(cyc_log))
    /\ \A i \in 1..Len(cyc_log) :
          /\ cyc_log[i].kind \in CycleKinds =>
                cyc_log[i].fractal = (FractalAt(i - 1) + 1) % NumFractals
          /\ cyc_log[i].kind \notin CycleKinds => cyc_log[i].fractal = FractalAt(i - 1)
    /\ \A i \in 0..Len(cyc_log) :
          /\ Consecutive(i, NumFractals) => FractalAt(i + NumFractals) = FractalAt(i)
          /\ \A n \in 1..(NumFractals - 1) :
                Consecutive(i, n) => FractalAt(i + n) # FractalAt(i)

C26_Witness ==
    /\ cyc_pc = "ready"
    /\ Len(cyc_log) = NumFractals + 1
    /\ cyc_log[1].kind = "request"
    /\ Consecutive(1, NumFractals)
    /\ cyc.current_fractal = 0
    /\ cyc_log[NumFractals].fractal = NumFractals - 1

(* the number of presses of C among the first i events                     *)
RECURSIVE Presses(_)
Presses(i) ==
    IF i = 0 THEN 0
    ELSE Presses(i - 1) + (IF cyc_log[i].kind = "C" THEN 1 ELSE 0)

PaletteOrder == <<"Classic", "Inverted", "Grayscale">>

(* C27: the palette starts as Classic and is, after n presses of C, the    *)
(* one at place n mod 3 of Classic, Inverted, Grayscale: three presses     *)
(* return to Classic and one or two presses never do.                      *)
C27_PalettePeriodThree ==
    /\ cyc_pc = "ready" => cyc_palette = PaletteAt(Len(cyc_log))
    /\ \A i \in 0..Len(cyc_log) :
          /\ PaletteAt(i) = PaletteOrder[(Presses(i) % 3) + 1]
          /\ Presses(i) \in {1, 2} => PaletteAt(i) # "Classic"
          /\ Presses(i) = 3 => PaletteAt(i) = "Classic"

C27_Witness ==
    /\ cyc_pc = "ready"
    /\ Len(cyc_log) = 3
    /\ Presses(3) = 3
    /\ cyc_log[1].palette = "Inverted"
    /\ cyc_log[2].palette = "Grayscale"
    /\ cyc_palette = "Classic"


(* ======================================================================= *)
(* FragmentTask::to_json and FragmentTask::from_json. A Rust value is a    *)
(* record; an f64 is finite with a value, or NaN, or infinite; a           *)
(* serde_json::Value is a number, null or an object; its text is the       *)
(* sequence of its tokens.                                                 *)
(* ======================================================================= *)
Fin(n) == [class |-> "finite", value |-> n]

NaN == [class |-> "nan", value |-> 0]

Infinity == [class |-> "inf", value |-> 0]

Complex(re, im) == [re |-> re, im |-> im]

(* FractalDescriptor: the variant and its fields; a variant without a      *)
(* field holds zeros in its place                                          *)
Descriptor(variant, c, d) == [variant |-> variant, c |-> c, divergence_threshold_square |-> d]

Variants == {"Julia", "Mandelbrot", "IteratedSinZ", "NewtonRaphsonZ3", "NewtonRaphsonZ4"}

NoComplex == Complex(Fin(0), Fin(0))

JNum(n) == [type |-> "number", value |-> n, members |-> <<>>]

JNull == [type |-> "null", value |-> 0, members |-> <<>>]

JObj(m) == [type |-> "object", value |-> 0, members |-> m]

(* serde_json's Value of an f64: Number::from_f64 has no NaN and no        *)
(* infinity, and the value becomes null                                    *)
ser_f64(f) == IF f.class = "finite" THEN JNum(f.value) ELSE JNull

ser_Complex(c) == JObj([k \in {"re", "im"} |-> IF k = "re" THEN ser_f64(c.re) ELSE ser_f64(c.im)])

ser_Point(p) == JObj([k \in {"x", "y"} |-> IF k = "x" THEN ser_f64(p.x) ELSE ser_f64(p.y)])

ser_Range(r) == JObj([k \in {"min", "max"} |-> IF k = "min" THEN ser_Point(r.min) ELSE ser_Point(r.max)])

ser_Resolution(r) == JObj([k \in {"nx", "ny"} |-> IF k = "nx" THEN JNum(r.nx) ELSE JNum(r.ny)])

ser_U8Data(d) ==
    JObj([k \in {"offset", "count"} |-> IF k = "offset" THEN JNum(d.offset) ELSE JNum(d.count)])

(* the enum is tagged from outside: the variant name is the one key        *)
ser_FractalDescriptor(f) ==
    JObj([v \in {f.variant} |->
            CASE f.variant = "Julia" ->
                    JObj([k \in {"c", "divergence_threshold_square"} |->
                            IF k = "c" THEN ser_Complex(f.c)
                            ELSE ser_f64(f.divergence_threshold_square)])
              [] f.variant = "IteratedSinZ" -> JObj([k \in {"c"} |-> ser_Complex(f.c)])
              [] OTHER -> JObj(<<>>)])

ser_FragmentTask(t) ==
    JObj([k \in {"id", "fractal", "max_iteration", "resolution", "range"} |->
            CASE k = "id" -> ser_U8Data(t.id)
              [] k = "fractal" -> ser_FractalDescriptor(t.fractal)
              [] k = "max_iteration" -> JNum(t.max_iteration)
              [] k = "resolution" -> ser_Resolution(t.resolution)
              [] k = "range" -> ser_Range(t.range)])

(* json!({ "FragmentTask": self })                                         *)
to_json(t) == JObj([k \in {"FragmentTask"} |-> ser_FragmentTask(t)])

(* the keys of the objects, in the order the map of an object keeps them   *)
KeyOrder ==
    <<"FragmentTask", "IteratedSinZ", "Julia", "Mandelbrot", "NewtonRaphsonZ3", "NewtonRaphsonZ4",
      "c", "count", "divergence_threshold_square", "fractal", "id", "im", "max", "max_iteration",
      "min", "nx", "ny", "offset", "range", "re", "resolution", "x", "y">>

Tok(t, n, k) == [t |-> t, n |-> n, k |-> k]

(* Value::to_string                                                        *)
RECURSIVE to_string(_)
RECURSIVE members_to_string(_, _)
to_string(v) ==
    CASE v.type = "number" -> <<Tok("num", v.value, "")>>
      [] v.type = "null"   -> <<Tok("null", 0, "")>>
      [] v.type = "object" ->
            <<Tok("open", 0, "")>> \o members_to_string(v.members, 1) \o <<Tok("close", 0, "")>>

members_to_string(m, i) ==
    IF i > Len(KeyOrder) THEN <<>>
    ELSE (IF KeyOrder[i] \in DOMAIN m
          THEN <<Tok("key", 0, KeyOrder[i])>> \o to_string(m[KeyOrder[i]])
          ELSE <<>>) \o members_to_string(m, i + 1)

Parsed(ok, v, rest) == [ok |-> ok, value |-> v, rest |-> rest]

(* serde_json::from_str to a Value: one value from the head of the tokens  *)
RECURSIVE parse_value(_)
RECURSIVE parse_members(_, _)
parse_value(toks) ==
    IF toks = <<>> THEN Parsed(FALSE, JNull, <<>>)
    ELSE CASE Head(toks).t = "num"  -> Parsed(TRUE, JNum(Head(toks).n), Tail(toks))
           [] Head(toks).t = "null" -> Parsed(TRUE, JNull, Tail(toks))
           [] Head(toks).t = "open" -> parse_members(Tail(toks), <<>>)
           [] OTHER -> Parsed(FALSE, JNull, toks)

parse_members(toks, acc) ==
    IF toks = <<>> THEN Parsed(FALSE, JNull, <<>>)
    ELSE CASE Head(toks).t = "close" -> Parsed(TRUE, JObj(acc), Tail(toks))
           [] Head(toks).t = "key" ->
                 LET p == parse_value(Tail(toks))
                 IN  IF p.ok
                     THEN parse_members(p.rest, (Head(toks).k :> p.value) @@ acc)
                     ELSE Parsed(FALSE, JNull, p.rest)
           [] OTHER -> Parsed(FALSE, JNull, toks)

from_str(toks) ==
    LET p == parse_value(toks)
    IN  IF p.ok /\ p.rest = <<>> THEN [ok |-> TRUE, value |-> p.value]
        ELSE [ok |-> FALSE, value |-> JNull]


Has(v, keys) == v.type = "object" /\ keys \subseteq DOMAIN v.members

Got(ok, v) == [ok |-> ok, value |-> v]

(* an f64 is read from a number; null is "invalid type: null, expected f64" *)
de_f64(v) == IF v.type = "number" THEN Got(TRUE, Fin(v.value)) ELSE Got(FALSE, Fin(0))

(* u16 and u32 are read from a number that is not negative                 *)
de_uint(v) == IF v.type = "number" /\ v.value >= 0 THEN Got(TRUE, v.value) ELSE Got(FALSE, 0)

de_Complex(v) ==
    IF Has(v, {"re", "im"})
    THEN LET re == de_f64(v.members["re"])
             im == de_f64(v.members["im"])
         IN  Got(re.ok /\ im.ok, Complex(re.value, im.value))
    ELSE Got(FALSE, NoComplex)

de_Point(v) ==
    IF Has(v, {"x", "y"})
    THEN LET x == de_f64(v.members["x"])
             y == de_f64(v.members["y"])
         IN  Got(x.ok /\ y.ok, [x |-> x.value, y |-> y.value])
    ELSE Got(FALSE, [x |-> Fin(0), y |-> Fin(0)])

de_Range(v) ==
    IF Has(v, {"min", "max"})
    THEN LET lo == de_Point(v.members["min"])
             hi == de_Point(v.members["max"])
         IN  Got(lo.ok /\ hi.ok, [min |-> lo.value, max |-> hi.value])
    ELSE Got(FALSE, [min |-> [x |-> Fin(0), y |-> Fin(0)], max |-> [x |-> Fin(0), y |-> Fin(0)]])

de_Resolution(v) ==
    IF Has(v, {"nx", "ny"})
    THEN LET nx == de_uint(v.members["nx"])
             ny == de_uint(v.members["ny"])
         IN  Got(nx.ok /\ ny.ok, [nx |-> nx.value, ny |-> ny.value])
    ELSE Got(FALSE, [nx |-> 0, ny |-> 0])

de_U8Data(v) ==
    IF Has(v, {"offset", "count"})
    THEN LET o == de_uint(v.members["offset"])
             c == de_uint(v.members["count"])
         IN  Got(o.ok /\ c.ok, [offset |-> o.value, count |-> c.value])
    ELSE Got(FALSE, [offset |-> 0, count |-> 0])

(* the one key of the object names the variant                             *)
de_FractalDescriptor(v) ==
    IF v.type = "object" /\ \E n \in Variants : DOMAIN v.members = {n}
    THEN LET n == CHOOSE n \in Variants : DOMAIN v.members = {n}
             b == v.members[n]
         IN  CASE n = "Julia" ->
                    IF Has(b, {"c", "divergence_threshold_square"})
                    THEN LET c == de_Complex(b.members["c"])
                             d == de_f64(b.members["divergence_threshold_square"])
                         IN  Got(c.ok /\ d.ok, Descriptor(n, c.value, d.value))
                    ELSE Got(FALSE, Descriptor(n, NoComplex, Fin(0)))
               [] n = "IteratedSinZ" ->
                    IF Has(b, {"c"})
                    THEN LET c == de_Complex(b.members["c"])
                         IN  Got(c.ok, Descriptor(n, c.value, Fin(0)))
                    ELSE Got(FALSE, Descriptor(n, NoComplex, Fin(0)))
               [] OTHER -> Got(b.type = "object", Descriptor(n, NoComplex, Fin(0)))
    ELSE Got(FALSE, Descriptor("Mandelbrot", NoComplex, Fin(0)))

de_FragmentTask(v) ==
    IF Has(v, {"id", "fractal", "max_iteration", "resolution", "range"})
    THEN LET id == de_U8Data(v.members["id"])
             fr == de_FractalDescriptor(v.members["fractal"])
             mi == de_uint(v.members["max_iteration"])
             rs == de_Resolution(v.members["resolution"])
             rg == de_Range(v.members["range"])
         IN  Got(id.ok /\ fr.ok /\ mi.ok /\ rs.ok /\ rg.ok,
                 [id |-> id.value, fractal |-> fr.value, max_iteration |-> mi.value,
                  resolution |-> rs.value, range |-> rg.value])
    ELSE Got(FALSE, <<>>)

(* v["FragmentTask"]: null when v is no object or has no such key          *)
Index(v, key) == IF Has(v, {key}) THEN v.members[key] ELSE JNull

from_json(text) ==
    LET v == from_str(text)
    IN  IF v.ok THEN de_FragmentTask(Index(v.value, "FragmentTask")) ELSE Got(FALSE, <<>>)

(* the f64 values, the descriptors and the tasks that are serialised       *)
JsonFloats == {Fin(-2), Fin(2), NaN, Infinity}

JsonDescriptors ==
    {Descriptor("Julia", c, d) : c \in {Complex(Fin(0), Fin(1)), Complex(NaN, Fin(0))},
                                  d \in {Fin(4), Infinity}}
      \cup {Descriptor("IteratedSinZ", c, Fin(0)) : c \in {Complex(Fin(1), Fin(0)), Complex(Fin(0), Infinity)}}
      \cup {Descriptor(n, NoComplex, Fin(0)) : n \in {"Mandelbrot", "NewtonRaphsonZ3", "NewtonRaphsonZ4"}}

JsonTasks ==
    {[id |-> [offset |-> 0, count |-> SignatureLen], fractal |-> f,
      max_iteration |-> MaxIteration, resolution |-> [nx |-> Width, ny |-> Height],
      range |-> [min |-> [x |-> a, y |-> b], max |-> [x |-> c, y |-> d]]] :
        f \in JsonDescriptors, a \in JsonFloats, b \in JsonFloats, c \in JsonFloats, d \in JsonFloats}

JsonInit ==
    /\ json_pc = "task"
    /\ json_task \in JsonTasks
    /\ json_text = <<>>
    /\ json_out = Got(FALSE, <<>>)

(* to_json(task) and the text of the value                                 *)
ToJson ==
    /\ json_pc = "task"
    /\ json_text' = to_string(to_json(json_task))
    /\ json_pc' = "text"
    /\ UNCHANGED <<serverVars, codecVars, workerVars, haltVars, renderVars, jsonFrame,
                   json_task, json_out>>

(* from_json of the text                                                   *)
FromJson ==
    /\ json_pc = "text"
    /\ json_out' = from_json(json_text)
    /\ json_pc' = "done"
    /\ UNCHANGED <<serverVars, codecVars, workerVars, haltVars, renderVars, jsonFrame,
                   json_task, json_text>>

JsonNext == ToJson \/ FromJson

JsonSpecInit ==
    /\ ServerInit
    /\ engine = "off"
    /\ portal = "off"
    /\ created = <<>>
    /\ CodecOff
    /\ WorkerOff
    /\ HaltOff
    /\ RenderOff
    /\ BlitOff
    /\ LoopOff
    /\ PlanOff
    /\ PanOff
    /\ SceneOff
    /\ CycleOff
    /\ JsonInit
    /\ CountOff
    /\ DispatchOff
    /\ RegistryOff
    /\ InboxOff
    /\ TileOff
    /\ AcceptOff

JsonSpec == JsonSpecInit /\ [][JsonNext]_vars

(* C28: for every FragmentTask, from_json of the text of to_json succeeds  *)
(* and yields an equal task, and the text is one object whose only key is  *)
(* FragmentTask.                                                           *)
C28_JsonRoundTrip ==
    /\ json_pc \in {"text", "done"} =>
          LET v == from_str(json_text)
          IN  v.ok /\ v.value.type = "object" /\ DOMAIN v.value.members = {"FragmentTask"}
    /\ json_pc = "done" => json_out.ok /\ json_out.value = json_task


(* ======================================================================= *)
(* The worker subcommand of the CLI: --count and the loops it spawns.      *)
(* ======================================================================= *)
MaxCount == 4

CountInit ==
    /\ count_pc = "spawn"
    /\ count_arg \in {[given |-> FALSE, value |-> 0]}
                     \cup {[given |-> TRUE, value |-> c] : c \in 0..MaxCount}
    /\ handles = <<>>

(* let count = match args.count { Some(count) => count, None => 1 }        *)
Count == IF count_arg.given THEN count_arg.value ELSE 1

(* one pass of for _ in 0..=count: tokio::spawn of a loop, handle pushed   *)
SpawnLoop ==
    /\ count_pc = "spawn"
    /\ Len(handles) \in 0..Count
    /\ handles' = Append(handles, "spawned")
    /\ UNCHANGED <<serverVars, codecVars, workerVars, haltVars, renderVars, countFrame,
                   count_pc, count_arg>>

(* the range is exhausted: the handles are awaited                         *)
AwaitHandles ==
    /\ count_pc = "spawn"
    /\ Len(handles) \notin 0..Count
    /\ count_pc' = "join"
    /\ UNCHANGED <<serverVars, codecVars, workerVars, haltVars, renderVars, countFrame,
                   count_arg, handles>>

(* a spawned task is polled: Worker::new, then run_worker, which loops     *)
StartLoop(i) ==
    /\ count_pc \in {"spawn", "join"}
    /\ i \in 1..Len(handles)
    /\ handles[i] = "spawned"
    /\ handles' = [handles EXCEPT ![i] = "running"]
    /\ UNCHANGED <<serverVars, codecVars, workerVars, haltVars, renderVars, countFrame,
                   count_pc, count_arg>>

CountNext ==
    \/ SpawnLoop
    \/ AwaitHandles
    \/ \E i \in 1..(MaxCount + 1) : StartLoop(i)

CountSpecInit ==
    /\ ServerInit
    /\ engine = "off"
    /\ portal = "off"
    /\ created = <<>>
    /\ CodecOff
    /\ WorkerOff
    /\ HaltOff
    /\ RenderOff
    /\ BlitOff
    /\ LoopOff
    /\ PlanOff
    /\ PanOff
    /\ SceneOff
    /\ CycleOff
    /\ JsonOff
    /\ CountInit
    /\ DispatchOff
    /\ RegistryOff
    /\ InboxOff
    /\ TileOff
    /\ AcceptOff

CountSpec == CountSpecInit /\ [][CountNext]_vars

(* C29: the worker subcommand run with --count C starts exactly C worker   *)
(* loops, 1 when --count is absent: never more are spawned, and once the   *)
(* handles are awaited there are C of them.                                *)
C29_CountLoopsSpawned ==
    /\ count_pc \in {"spawn", "join"} => Len(handles) <= Count
    /\ count_pc = "join" => Len(handles) = Count


(* ======================================================================= *)
(* process_fragment_request served for several connections side by side:   *)
(* each handler takes the server's lock for the block that registers the   *)
(* worker and chooses the task; the window regenerates the tiles and the   *)
(* portal queues tasks in between.                                         *)
(* ======================================================================= *)
NumHandlers == 2

MaxRegens == 2

Handlers == 1..NumHandlers

DispatchInit ==
    /\ d_pc = [h \in Handlers |-> "idle"]
    /\ d_task = [h \in Handlers |-> NoTask]
    /\ d_lock = NoOwner
    /\ desk = regenerate_tiles(ServerAt(InitialRange))
    /\ dispatched = <<>>
    /\ regens = 0

(* read_message returned a FragmentRequest                                 *)
DispatchRead(h) ==
    /\ d_pc[h] = "idle"
    /\ d_pc' = [d_pc EXCEPT ![h] = "waiting"]
    /\ UNCHANGED <<serverVars, codecVars, workerVars, haltVars, renderVars, dispatchFrame,
                   d_task, d_lock, desk, dispatched, regens>>

(* server.lock().unwrap(), then register_worker                            *)
DispatchLock(h) ==
    /\ d_pc[h] = "waiting"
    /\ d_lock = NoOwner
    /\ d_lock' = h
    /\ desk' = register_worker(desk, EndpointOf(h), NameOf(h))
    /\ d_pc' = [d_pc EXCEPT ![h] = "locked"]
    /\ UNCHANGED <<serverVars, codecVars, workerVars, haltVars, renderVars, dispatchFrame,
                   d_task, dispatched, regens>>

(* dequeue_task, else create_fragment_task; the guard drops with the block *)
DispatchTake(h) ==
    /\ d_pc[h] = "locked"
    /\ d_lock = h
    /\ LET queued == dequeue_task(desk)
           out == IF queued.task # NoTask THEN queued ELSE create_fragment_task(desk)
       IN  /\ desk' = out.server
           /\ d_task' = [d_task EXCEPT ![h] = out.task]
           /\ dispatched' = IF out.task = NoTask THEN dispatched
                            ELSE Append(dispatched, [range |-> out.task.range, handler |-> h])
           /\ d_pc' = [d_pc EXCEPT ![h] = IF out.task = NoTask THEN "idle" ELSE "send"]
    /\ d_lock' = NoOwner
    /\ UNCHANGED <<serverVars, codecVars, workerVars, haltVars, renderVars, dispatchFrame, regens>>

(* send_fragment_task: sent or failed, the task is not queued again        *)
DispatchSend(h) ==
    /\ d_pc[h] = "send"
    /\ d_pc' = [d_pc EXCEPT ![h] = "idle"]
    /\ d_task' = [d_task EXCEPT ![h] = NoTask]
    /\ UNCHANGED <<serverVars, codecVars, workerVars, haltVars, renderVars, dispatchFrame,
                   d_lock, desk, dispatched, regens>>

(* key C of the window: regenerate_tiles under the lock                    *)
DispatchRegenerate ==
    /\ d_lock = NoOwner
    /\ regens < MaxRegens
    /\ desk' = regenerate_tiles(desk)
    /\ dispatched' = <<>>
    /\ regens' = regens + 1
    /\ UNCHANGED <<serverVars, codecVars, workerVars, haltVars, renderVars, dispatchFrame,
                   d_pc, d_task, d_lock>>

(* process_portal_fragment_request: create_fragment_task, enqueue_task     *)
DispatchPortal ==
    /\ d_lock = NoOwner
    /\ LET r == create_fragment_task(desk)
       IN  /\ r.task # NoTask
           /\ desk' = enqueue_task(r.server, r.task)
    /\ UNCHANGED <<serverVars, codecVars, workerVars, haltVars, renderVars, dispatchFrame,
                   d_pc, d_task, d_lock, dispatched, regens>>

DispatchNext ==
    \/ \E h \in Handlers : DispatchRead(h)
    \/ \E h \in Handlers : DispatchLock(h)
    \/ \E h \in Handlers : DispatchTake(h)
    \/ \E h \in Handlers : DispatchSend(h)
    \/ DispatchRegenerate
    \/ DispatchPortal

DispatchSpecInit ==
    /\ ServerInit
    /\ engine = "off"
    /\ portal = "off"
    /\ created = <<>>
    /\ CodecOff
    /\ WorkerOff
    /\ HaltOff
    /\ RenderOff
    /\ BlitOff
    /\ LoopOff
    /\ PlanOff
    /\ PanOff
    /\ SceneOff
    /\ CycleOff
    /\ JsonOff
    /\ CountOff
    /\ DispatchInit
    /\ RegistryOff
    /\ InboxOff
    /\ TileOff
    /\ AcceptOff

DispatchSpec == DispatchSpecInit /\ [][DispatchNext]_vars

(* the entries a request can still be answered with                        *)
Pending(s) == Len(s.tasks_queue) + Len(s.tiles)

(* C30: dispatch is exclusive. A request is answered only by the handler   *)
(* that holds the lock; a request answered from the queue gets its head    *)
(* and the queue loses exactly that entry, one answered from the tiles     *)
(* takes exactly one tile; and between two regenerate_tiles no tile is     *)
(* handed to two requests, so to at most one worker.                       *)
C30_DispatchExclusive ==
    /\ [](\A i, j \in 1..Len(dispatched) : i # j => dispatched[i].range # dispatched[j].range)
    /\ [](\A h \in Handlers : d_pc[h] = "locked" => d_lock = h)
    /\ [][\A h \in Handlers :
             d_task'[h] # d_task[h] /\ d_task'[h] # NoTask =>
                /\ d_lock = h
                /\ Pending(desk') = Pending(desk) - 1
                /\ desk.tasks_queue # <<>> =>
                      /\ d_task'[h] = Head(desk.tasks_queue)
                      /\ desk'.tasks_queue = Tail(desk.tasks_queue)
                      /\ desk'.tiles = desk.tiles
                /\ \A g \in Handlers \ {h} : d_task'[g] = d_task[g]]_vars

C30_Witness ==
    /\ Len(dispatched) = Tiles * Tiles
    /\ \E i, j \in 1..Len(dispatched) : dispatched[i].handler # dispatched[j].handler
    /\ regens = 1
    /\ Pending(desk) = 0
    /\ \E h \in Handlers : d_pc[h] = "waiting"


(* ======================================================================= *)
(* What the handlers leave of a tile once it has been handed out.          *)
(* ======================================================================= *)
(* the ranges a request can still be answered with                         *)
PendingRanges(s) ==
    {s.tiles[i] : i \in 1..Len(s.tiles)} \cup {s.tasks_queue[i].range : i \in 1..Len(s.tasks_queue)}

(* C31: a tile taken for a request is never put back by the server. No     *)
(* step but a regenerate_tiles adds a range to the tiles or the queue or   *)
(* makes them longer: not a failed send, not a result that is malformed,   *)
(* not a connection that ends; and a tile handed out by                    *)
(* create_fragment_task stays out of the tiles until then.                 *)
C31_DequeuedTileNeverPutBack ==
    /\ [][mutations' = mutations =>
             /\ PendingRanges(server') \subseteq PendingRanges(server)
             /\ Len(server'.tiles) + Len(server'.tasks_queue)
                   <= Len(server.tiles) + Len(server.tasks_queue)]_vars
    /\ [](\A i \in 1..Len(created), j \in 1..Len(server.tiles) : created[i] # server.tiles[j])

C31_Witness ==
    \E c \in Conns :
       /\ pc[c] = "serviced"
       /\ task[c] # NoTask
       /\ sent[c] = NoFrame
       /\ task[c].range \notin PendingRanges(server)
       /\ mutations = 0
       /\ \E d \in Conns : pc[d] = "rejected"


(* ======================================================================= *)
(* The order in which handle_connection tries the header.                  *)
(* ======================================================================= *)
(* headers that hold both top-level keys, with a well-formed payload       *)
BothMessages ==
    { [keys |-> {"FragmentResult", "FragmentRequest"}, worker_name |-> n, offset |-> 16, len |-> 24] :
        n \in Names }

HeaderNext ==
    \/ \E c \in Conns, m \in BothMessages : ReadMessage(c, m)
    \/ ConnNext
    \/ PortalNext

HeaderSpec == Init /\ [][HeaderNext]_vars

(* C32: the header is tried as a FragmentResult first and as a             *)
(* FragmentRequest only if that fails. A header that decodes as a result   *)
(* is serviced as a result and registers no worker; only a handler whose   *)
(* header decoded as a request and not as a result registers a worker. A   *)
(* header that decodes as neither ends the handler at once: nothing is     *)
(* registered, dequeued, sent on a channel or written to the socket, and   *)
(* the closed connection does nothing afterwards.                          *)
C32_ResultTriedFirstUnknownDropped ==
    /\ [][\A c \in Conns :
             pc[c] = "read_header" /\ pc'[c] # "read_header" =>
                /\ "FragmentResult" \in msg[c].keys => pc'[c] = "classified_result"
                /\ "FragmentResult" \notin msg[c].keys /\ "FragmentRequest" \in msg[c].keys =>
                      pc'[c] = "classified_request"
                /\ msg[c].keys \cap {"FragmentResult", "FragmentRequest"} = {} =>
                      /\ pc'[c] = "closed"
                      /\ server' = server /\ registered' = registered
                      /\ render_chan' = render_chan /\ portal_chan' = portal_chan
                      /\ sent' = sent]_vars
    /\ [][\A c \in Conns :
             /\ pc[c] \in ResultPcs => pc'[c] \notin {"classified_request", "req_locked", "req_send"}
             /\ pc[c] = "closed" => pc'[c] = "closed" /\ sent'[c] = sent[c]]_vars
    /\ [][registered' # registered =>
             \E c \in Conns : /\ pc[c] = "classified_request" /\ pc'[c] = "req_locked"
                              /\ "FragmentResult" \notin msg[c].keys]_vars
    /\ [](\A c \in Conns : pc[c] = "classified_request" => "FragmentResult" \notin msg[c].keys)

C32_Witness ==
    \E c, d \in Conns :
       /\ pc[c] = "classified_result"
       /\ msg[c].keys = {"FragmentResult", "FragmentRequest"}
       /\ pc[d] = "closed"
       /\ reads[d] = 1
       /\ sent[d] = NoFrame
       /\ \A a \in Addrs : registered[a] = <<>>
       /\ render_chan = <<>>


(* C33: process_fragment_result faults for no header and payload: no       *)
(* handler panics, and a result whose pixels.offset is greater than the    *)
(* length of the payload is rejected with the server state and the         *)
(* channels unchanged.                                                     *)
C33_ResultHandlerNeverFaults ==
    /\ [](\A c \in Conns : pc[c] # "panicked")
    /\ [][\A c \in Conns :
             ( /\ pc[c] = "classified_result"
               /\ msg[c].offset > msg[c].len
               /\ pc'[c] # pc[c] ) =>
                  /\ pc'[c] = "rejected"
                  /\ render_chan' = render_chan
                  /\ portal_chan' = portal_chan]_vars


(* ---- workers looping against the registry of the server ---------------- *)
NumPorts == 3

MaxResults == 2

Ports == 1..NumPorts

(* local ports a socket of a worker still holds                            *)
PortsInUse == {g_outer[w] : w \in Names} \cup {g_inner[w] : w \in Names}

RegistryInit ==
    /\ g_pc = [w \in Names |-> "connect"]
    /\ g_outer = [w \in Names |-> 0]
    /\ g_inner = [w \in Names |-> 0]
    /\ book = [p \in Ports |-> None]
    /\ credited = <<>>

(* run: connect_to_server before the loop; the system picks a free port    *)
RegistryConnect(w, p) ==
    /\ g_pc[w] = "connect"
    /\ Len(credited) < MaxResults
    /\ p \notin PortsInUse
    /\ g_outer' = [g_outer EXCEPT ![w] = p]
    /\ g_pc' = [g_pc EXCEPT ![w] = "request"]
    /\ UNCHANGED <<serverVars, codecVars, workerVars, haltVars, renderVars, registryFrame,
                   g_inner, book, credited>>

(* send_fragment_request on the outer stream; process_fragment_request     *)
(* registers the name under the remote endpoint and answers with a task    *)
RegistryRequest(w) ==
    /\ g_pc[w] = "request"
    /\ book' = [book EXCEPT ![g_outer[w]] = w]
    /\ g_pc' = [g_pc EXCEPT ![w] = "perform"]
    /\ UNCHANGED <<serverVars, codecVars, workerVars, haltVars, renderVars, registryFrame,
                   g_outer, g_inner, credited>>

(* read_fragment_task and perform_task                                     *)
RegistryPerform(w) ==
    /\ g_pc[w] = "perform"
    /\ g_pc' = [g_pc EXCEPT ![w] = "reconnect"]
    /\ UNCHANGED <<serverVars, codecVars, workerVars, haltVars, renderVars, registryFrame,
                   g_outer, g_inner, book, credited>>

(* the second connect_to_server, while the outer stream is still held      *)
RegistryReconnect(w, p) ==
    /\ g_pc[w] = "reconnect"
    /\ p \notin PortsInUse
    /\ g_inner' = [g_inner EXCEPT ![w] = p]
    /\ g_pc' = [g_pc EXCEPT ![w] = "result"]
    /\ UNCHANGED <<serverVars, codecVars, workerVars, haltVars, renderVars, registryFrame,
                   g_outer, book, credited>>

(* send_fragment_result; process_fragment_result looks the remote endpoint *)
(* of this connection up in the registry                                   *)
RegistryResult(w) ==
    /\ g_pc[w] = "result"
    /\ credited' = Append(credited,
           [sender |-> w,
            worker |-> IF book[g_inner[w]] # None THEN book[g_inner[w]] ELSE Placeholder])
    /\ g_pc' = [g_pc EXCEPT ![w] = "shutdown"]
    /\ UNCHANGED <<serverVars, codecVars, workerVars, haltVars, renderVars, registryFrame,
                   g_outer, g_inner, book>>

(* stream.shutdown() of the inner stream                                   *)
RegistryShutdown(w) ==
    /\ g_pc[w] = "shutdown"
    /\ g_inner' = [g_inner EXCEPT ![w] = 0]
    /\ g_pc' = [g_pc EXCEPT ![w] = "again"]
    /\ UNCHANGED <<serverVars, codecVars, workerVars, haltVars, renderVars, registryFrame,
                   g_outer, book, credited>>

(* the loop turns: the request on the served outer stream gets no task,    *)
(* run returns the error, the stream is dropped and run_worker calls run   *)
RegistryAgain(w) ==
    /\ g_pc[w] = "again"
    /\ g_outer' = [g_outer EXCEPT ![w] = 0]
    /\ g_pc' = [g_pc EXCEPT ![w] = "connect"]
    /\ UNCHANGED <<serverVars, codecVars, workerVars, haltVars, renderVars, registryFrame,
                   g_inner, book, credited>>

RegistryNext ==
    \/ \E w \in Names, p \in Ports : RegistryConnect(w, p)
    \/ \E w \in Names : RegistryRequest(w)
    \/ \E w \in Names : RegistryPerform(w)
    \/ \E w \in Names, p \in Ports : RegistryReconnect(w, p)
    \/ \E w \in Names : RegistryResult(w)
    \/ \E w \in Names : RegistryShutdown(w)
    \/ \E w \in Names : RegistryAgain(w)

RegistrySpecInit ==
    /\ ServerInit
    /\ engine = "off"
    /\ portal = "off"
    /\ created = <<>>
    /\ CodecOff
    /\ WorkerOff
    /\ HaltOff
    /\ RenderOff
    /\ BlitOff
    /\ LoopOff
    /\ PlanOff
    /\ PanOff
    /\ SceneOff
    /\ CycleOff
    /\ JsonOff
    /\ CountOff
    /\ DispatchOff
    /\ RegistryInit
    /\ InboxOff
    /\ TileOff
    /\ AcceptOff

RegistrySpec == RegistrySpecInit /\ [][RegistryNext]_vars

(* C34: the result of a worker that got its task through a FragmentRequest *)
(* is attributed to the name that worker registered, never to a            *)
(* placeholder, and the registry holds at most one entry for each worker.  *)
C34_ResultAttributedToRegisteredName ==
    /\ \A i \in 1..Len(credited) : credited[i].worker = credited[i].sender
    /\ \A w \in Names : Cardinality({p \in Ports : book[p] = w}) <= 1


(* ---- the shards of the engine, one lock of a shard a step -------------- *)
MaxItems == 12

Items == 1..MaxItems

Shards == 1..ShardCount

InboxInit ==
    /\ in_pc = "recv"
    /\ in_item = 0
    /\ in_at = 0
    /\ in_next = 1
    /\ in_slots = [i \in Shards |-> 0]
    /\ pass_at = 0
    /\ in_blits = [d \in Items |-> 0]
    /\ in_dropped = {}

(* rendering_data_receiver.recv() returned Some(data)                      *)
InboxRecv ==
    /\ in_pc = "recv"
    /\ in_next <= MaxItems
    /\ in_item' = in_next
    /\ in_next' = in_next + 1
    /\ in_at' = 1
    /\ in_pc' = "scan"
    /\ UNCHANGED <<serverVars, codecVars, workerVars, haltVars, renderVars, inboxFrame,
                   in_slots, pass_at, in_blits, in_dropped>>

(* a consumer that stores in the shard it examines, whatever it holds      *)
InboxTry_Overwrites ==
    /\ in_pc = "scan"
    /\ in_slots' = [in_slots EXCEPT ![in_at] = in_item]
    /\ in_pc' = "recv"
    /\ in_item' = 0
    /\ in_at' = 0
    /\ UNCHANGED <<serverVars, codecVars, workerVars, haltVars, renderVars, inboxFrame,
                   in_next, pass_at, in_blits, in_dropped>>

(* a consumer that starts over at the first shard when all were occupied   *)
InboxTry_Waits ==
    /\ in_pc = "scan"
    /\ IF in_slots[in_at] = 0
       THEN /\ in_slots' = [in_slots EXCEPT ![in_at] = in_item]
            /\ in_pc' = "recv"
            /\ in_item' = 0
            /\ in_at' = 0
       ELSE /\ in_at' = IF in_at < ShardCount THEN in_at + 1 ELSE 1
            /\ UNCHANGED <<in_slots, in_pc, in_item>>
    /\ UNCHANGED <<serverVars, codecVars, workerVars, haltVars, renderVars, inboxFrame,
                   in_next, pass_at, in_blits, in_dropped>>

(* one turn of `for shard in rendering_data.iter()`: lock the shard, store *)
(* and break when it is None, go on otherwise; the item is dropped when    *)
(* the loop ends                                                           *)
InboxTry ==
    /\ in_pc = "scan"
    /\ IF in_slots[in_at] = 0
       THEN /\ in_slots' = [in_slots EXCEPT ![in_at] = in_item]
            /\ in_pc' = "recv"
            /\ in_item' = 0
            /\ in_at' = 0
            /\ UNCHANGED in_dropped
       ELSE IF in_at < ShardCount
            THEN /\ in_at' = in_at + 1
                 /\ UNCHANGED <<in_slots, in_pc, in_item, in_dropped>>
            ELSE /\ in_dropped' = in_dropped \cup {in_item}
                 /\ in_pc' = "recv"
                 /\ in_item' = 0
                 /\ in_at' = 0
                 /\ UNCHANGED in_slots
    /\ UNCHANGED <<serverVars, codecVars, workerVars, haltVars, renderVars, inboxFrame,
                   in_next, pass_at, in_blits>>

(* RedrawRequested: render is called                                       *)
InboxRenderStart ==
    /\ in_pc # "off"
    /\ pass_at = 0
    /\ pass_at' = 1
    /\ UNCHANGED <<serverVars, codecVars, workerVars, haltVars, renderVars, inboxFrame,
                   in_pc, in_item, in_at, in_next, in_slots, in_blits, in_dropped>>

(* one turn of the loop of render: lock the shard, take() and draw         *)
InboxRenderShard ==
    /\ pass_at # 0
    /\ in_slots' = [in_slots EXCEPT ![pass_at] = 0]
    /\ in_blits' = IF in_slots[pass_at] = 0 THEN in_blits
                   ELSE [in_blits EXCEPT ![in_slots[pass_at]] = @ + 1]
    /\ pass_at' = IF pass_at < ShardCount THEN pass_at + 1 ELSE 0
    /\ UNCHANGED <<serverVars, codecVars, workerVars, haltVars, renderVars, inboxFrame,
                   in_pc, in_item, in_at, in_next, in_dropped>>

InboxNext ==
    \/ InboxRecv
    \/ InboxTry
    \/ InboxRenderStart
    \/ InboxRenderShard

InboxSpecInit ==
    /\ ServerInit
    /\ engine = "off"
    /\ portal = "off"
    /\ created = <<>>
    /\ CodecOff
    /\ WorkerOff
    /\ HaltOff
    /\ RenderOff
    /\ BlitOff
    /\ LoopOff
    /\ PlanOff
    /\ PanOff
    /\ SceneOff
    /\ CycleOff
    /\ JsonOff
    /\ CountOff
    /\ DispatchOff
    /\ RegistryOff
    /\ InboxInit
    /\ TileOff
    /\ AcceptOff

InboxSpec == InboxSpecInit /\ [][InboxNext]_vars


(* the consumer stores the item it holds                                   *)
InboxStores == in_item # 0 /\ in_item' = 0 /\ in_dropped' = in_dropped

(* the consumer drops the item it holds                                    *)
InboxDrops == in_item # 0 /\ in_item' = 0 /\ in_dropped' # in_dropped

(* render examines the shard pass_at                                       *)
InboxRenders == pass_at # 0 /\ pass_at' # pass_at

Held(d) == Cardinality({k \in Shards : in_slots[k] = d})

(* no shard that holds a RenderingData is written by the consumer, the     *)
(* shard render examines is left empty and what it held is drawn, and      *)
(* every RenderingData is in one place: still to come, with the consumer,  *)
(* in one shard, drawn once, or dropped                                    *)
InboxDiscipline ==
    /\ [][/\ \A k \in Shards : in_slots[k] # 0 => in_slots'[k] \in {in_slots[k], 0}
          /\ InboxRenders =>
                /\ in_slots'[pass_at] = 0
                /\ \A k \in Shards \ {pass_at} : in_slots'[k] = in_slots[k]
                /\ \A d \in Items :
                      in_blits'[d] = in_blits[d] + (IF in_slots[pass_at] = d THEN 1 ELSE 0)
          /\ ~InboxRenders => in_blits' = in_blits]_vars
    /\ [](in_pc # "off" =>
             \A d \in Items :
                Held(d) + in_blits[d]
                  + (IF d \in in_dropped THEN 1 ELSE 0)
                  + (IF d = in_item THEN 1 ELSE 0)
                  + (IF d >= in_next THEN 1 ELSE 0) = 1)

(* C35 as stated: the consumer stores an item only in the lowest-indexed   *)
(* empty shard and never overwrites one; a render pass takes each occupied *)
(* shard and leaves it empty; each stored RenderingData is drawn exactly   *)
(* once.                                                                   *)
C35_StoredInLowestEmptySlot ==
    /\ [][InboxStores =>
             /\ in_slots[in_at] = 0
             /\ \A j \in 1..(in_at - 1) : in_slots[j] # 0]_vars
    /\ InboxDiscipline

(* C35 amended: the consumer stores an item only in the first shard it     *)
(* finds empty when it examines them in index order, passing a shard only  *)
(* when it finds it occupied (a shard it has passed may have been emptied  *)
(* by render since), and never overwrites one; render takes each occupied  *)
(* shard and leaves it empty; each stored RenderingData is drawn at most   *)
(* once and is in a shard until it is drawn.                               *)
C35_StoredInFirstSlotFoundEmpty ==
    /\ [][/\ InboxStores =>
                /\ in_slots[in_at] = 0
                /\ in_slots' = [in_slots EXCEPT ![in_at] = in_item]
          /\ (in_pc = "scan" /\ in_at' = in_at + 1) => in_slots[in_at] # 0
          /\ (in_pc = "recv" /\ in_pc' = "scan") => in_at' = 1]_vars
    /\ InboxDiscipline

C35_Witness ==
    /\ \E d \in Items : in_blits[d] = 1
    /\ \E k \in Shards : k > 1 /\ in_slots[k] # 0 /\ in_slots[1] = 0 /\ pass_at = 0

MaxSide == 4

(* a RenderingData of nx by ny, its iterations of length nx * ny           *)
TileInit ==
    /\ t_pc = "draw"
    /\ \E nx \in 1..MaxSide, ny \in 1..MaxSide :
          t_tile = [resolution |-> [nx |-> nx, ny |-> ny],
                    iterations |-> [i \in 1..(nx * ny) |-> i - 1]]
    /\ t_x = 0
    /\ t_y = 0
    /\ t_drawn = <<>>

(* for y in 0..ny { for x in 0..nx { iterations[(x + y * ny) as usize];    *)
(* draw_pixel(start_x + x, start_y + y, t) } }: one turn of the inner loop *)
TileDraw ==
    /\ t_pc = "draw"
    /\ LET nx == t_tile.resolution.nx
           ny == t_tile.resolution.ny
           at == t_x + t_y * ny
       IN  IF at >= Len(t_tile.iterations)
           THEN /\ t_pc' = "panic"
                /\ UNCHANGED <<t_x, t_y, t_drawn>>
           ELSE /\ t_drawn' = Append(t_drawn, [x |-> t_x, y |-> t_y, at |-> at,
                                               t |-> t_tile.iterations[at + 1]])
                /\ t_x' = IF t_x + 1 < nx THEN t_x + 1 ELSE 0
                /\ t_y' = IF t_x + 1 < nx THEN t_y ELSE t_y + 1
                /\ t_pc' = IF t_x + 1 < nx \/ t_y + 1 < ny THEN "draw" ELSE "done"
    /\ UNCHANGED <<serverVars, codecVars, workerVars, haltVars, renderVars, tileFrame, t_tile>>

TileNext == TileDraw

TileSpecInit ==
    /\ ServerInit
    /\ engine = "off"
    /\ portal = "off"
    /\ created = <<>>
    /\ CodecOff
    /\ WorkerOff
    /\ HaltOff
    /\ RenderOff
    /\ BlitOff
    /\ LoopOff
    /\ PlanOff
    /\ PanOff
    /\ SceneOff
    /\ CycleOff
    /\ JsonOff
    /\ CountOff
    /\ DispatchOff
    /\ RegistryOff
    /\ InboxOff
    /\ TileInit
    /\ AcceptOff

TileSpec == TileSpecInit /\ [][TileNext]_vars

(* C37: for a tile of nx by ny, square or not, render gives the pixel      *)
(* (x, y) the intensity iterations[y * nx + x]; no index is outside        *)
(* [0, nx * ny), and when the tile is drawn every element of iterations    *)
(* was used exactly once.                                                  *)
C37_RenderReadsRowMajor ==
    t_pc # "off" =>
       /\ t_pc # "panic"
       /\ \A i \in 1..Len(t_drawn) :
             /\ t_drawn[i].at = t_drawn[i].y * t_tile.resolution.nx + t_drawn[i].x
             /\ t_drawn[i].at < t_tile.resolution.nx * t_tile.resolution.ny
       /\ t_pc = "done" =>
             \A k \in 0..(Len(t_tile.iterations) - 1) :
                Cardinality({i \in 1..Len(t_drawn) : t_drawn[i].at = k}) = 1


(* C38: with graphics enabled the engine runs and holds the receiver of    *)
(* the render channel: the channel is never closed, so the render send of  *)
(* a handler puts its RenderingData on the channel for the consumer task.  *)
C38_EngineHoldsRenderReceiver ==
    /\ [](engine # "off" => engine = "running")
    /\ [][\A c \in Conns :
             (engine # "off" /\ pc[c] = "render_send" /\ pc'[c] = "serviced") =>
                 render_chan' = Append(render_chan, rd[c])]_vars


(* ---- the accept loop and what its listener returns --------------------- *)
MaxAccepts == 4

(* an Err of accept that leaves the listener usable (a connection aborted  *)
(* before it was accepted, no file descriptor left), and one that does not *)
AcceptErrors == {"transient", "dead"}

AcceptInit ==
    /\ l_loop = "accepting"
    /\ l_log = <<>>
    /\ l_handlers = <<>>
    /\ l_running = TRUE
    /\ l_joined = FALSE

(* accept returned Ok: the loop body spawns handle_connection              *)
AcceptOk ==
    /\ l_loop = "accepting"
    /\ Len(l_log) < MaxAccepts
    /\ l_log' = Append(l_log, "ok")
    /\ l_handlers' = Append(l_handlers, "running")
    /\ UNCHANGED <<serverVars, codecVars, workerVars, haltVars, renderVars, acceptFrame,
                   l_loop, l_running, l_joined>>

(* accept returned Err: `while let Ok(..)` does not match, the loop is     *)
(* over and handle_connections returns                                     *)
AcceptErr(e) ==
    /\ l_loop = "accepting"
    /\ Len(l_log) < MaxAccepts
    /\ l_log' = Append(l_log, e)
    /\ l_loop' = "ended"
    /\ UNCHANGED <<serverVars, codecVars, workerVars, haltVars, renderVars, acceptFrame,
                   l_handlers, l_running, l_joined>>

(* a spawned handle_connection runs to its end                             *)
AcceptHandlerDone(i) ==
    /\ i \in 1..Len(l_handlers)
    /\ l_handlers[i] = "running"
    /\ l_handlers' = [l_handlers EXCEPT ![i] = "done"]
    /\ UNCHANGED <<serverVars, codecVars, workerVars, haltVars, renderVars, acceptFrame,
                   l_loop, l_log, l_running, l_joined>>

(* join!(connection_handler) completes; execute_server returns Ok(())      *)
AcceptJoin ==
    /\ l_loop = "ended"
    /\ ~l_joined
    /\ l_joined' = TRUE
    /\ UNCHANGED <<serverVars, codecVars, workerVars, haltVars, renderVars, acceptFrame,
                   l_loop, l_log, l_handlers, l_running>>

(* the ctrlc handler clears the flag; handle_connections does not read it  *)
AcceptCtrlC ==
    /\ l_loop # "off"
    /\ l_running
    /\ l_running' = FALSE
    /\ UNCHANGED <<serverVars, codecVars, workerVars, haltVars, renderVars, acceptFrame,
                   l_loop, l_log, l_handlers, l_joined>>

AcceptNext ==
    \/ AcceptOk
    \/ \E e \in AcceptErrors : AcceptErr(e)
    \/ \E i \in 1..MaxAccepts : AcceptHandlerDone(i)
    \/ AcceptJoin
    \/ AcceptCtrlC

AcceptSpecInit ==
    /\ ServerInit
    /\ engine = "off"
    /\ portal = "off"
    /\ created = <<>>
    /\ CodecOff
    /\ WorkerOff
    /\ HaltOff
    /\ RenderOff
    /\ BlitOff
    /\ LoopOff
    /\ PlanOff
    /\ PanOff
    /\ SceneOff
    /\ CycleOff
    /\ JsonOff
    /\ CountOff
    /\ DispatchOff
    /\ RegistryOff
    /\ InboxOff
    /\ TileOff
    /\ AcceptInit

AcceptSpec == AcceptSpecInit /\ [][AcceptNext]_vars

(* C39: an accept that fails while the listener is usable and no shutdown  *)
(* was requested leaves the loop accepting; the loop is over only when the *)
(* listener is dead or shutdown was requested.                             *)
C39_FailedAcceptKeepsLoop ==
    /\ [][(l_running /\ Len(l_log') > Len(l_log) /\ l_log'[Len(l_log')] = "transient")
             => l_loop' = "accepting"]_vars
    /\ [](l_loop = "ended" =>
             \/ ~l_running
             \/ \E i \in 1..Len(l_log) : l_log[i] = "dead")


(* ---- pans and zooms of the viewport, in any order ---------------------- *)
(* the key bindings P and M: zoom(0.9) and zoom(1.1)                       *)
PanZoom(f) ==
    /\ pan_pc = "ready"
    /\ Len(pan_log) < MaxPans
    /\ pan_view' = zoom_f64(pan_view, f)
    /\ pan_log' = Append(pan_log, IF f = ZoomIn THEN "in" ELSE "out")
    /\ UNCHANGED <<serverVars, codecVars, workerVars, haltVars, renderVars, panFrame,
                   pan_pc, pan_start>>

PanZoomNext ==
    \/ \E d \in Directions : Pan(d)
    \/ \E f \in {ZoomIn, ZoomOut} : PanZoom(f)

PanZoomSpec == PanSpecInit /\ [][PanZoomNext]_vars

(* the step is a pan in direction d                                        *)
Panned(d) == pan_log' = Append(pan_log, d)

(* the signed step of a pan in direction d: a tenth of the extent          *)
StepOf(r, d) ==
    CASE d = "right" -> f64_mul(f64_sub(r.maxx, r.minx), Tenth)
      [] d = "left"  -> 0 - f64_mul(f64_sub(r.maxx, r.minx), Tenth)
      [] d = "down"  -> f64_mul(f64_sub(r.maxy, r.miny), Tenth)
      [] d = "up"    -> 0 - f64_mul(f64_sub(r.maxy, r.miny), Tenth)

Ordered(r) == r.minx <= r.maxx /\ r.miny <= r.maxy

====
